---- MODULE Spec2Model ----
(***************************************************************************)
(* Schema derivation and validation engine of src/data/schema_checks.py:   *)
(* the schema document parser (_parse_schema_doc), the memoized schema     *)
(* catalog (_schema_catalog, get_schema_spec, get_schema_columns) and the  *)
(* schema matcher (_detect_schema_name, head of collect_schema_report).    *)
(*                                                                         *)
(* Three specifications share the module:                                  *)
(*   ParseSpec  one run of _parse_schema_doc over a document, one loop     *)
(*              iteration per step;                                        *)
(*   Spec       threads calling the catalog API while the documents on     *)
(*              disk change;                                               *)
(*   MatchSpec  one run of the matcher over a catalog and observed columns.*)
(***************************************************************************)
EXTENDS Integers, Sequences, FiniteSets, TLC

VARIABLES
  \* ---- _parse_schema_doc (ParseSpec)
  doc_file,          \* the file at doc_path: a document or Absent
  lines,             \* raw_text.splitlines(), the document's lines once read
  schema_name,       \* the schema_name argument
  line_no,           \* position of the for loop over lines (next line to read)
  fields,            \* the list `fields`, in document order
  current_field,     \* index in fields of the dict current_field aliases; 0 = None
  in_field_section,  \* the flag in_field_section
  parsed,            \* outcome of the call: NotYet, a raised exception or the schema
  \* ---- _schema_catalog and its callers (Spec)
  disk,              \* schema name -> document on disk, or Absent
  cache,             \* the lru_cache slot of _schema_catalog: Empty or a catalog_info
  pc,                \* thread -> "idle" | "build"
  call,              \* thread -> the API call in progress
  building,          \* thread -> the catalog_info under construction in _schema_catalog
  ret,               \* thread -> outcome of the thread's last finished call
  builds,            \* thread -> how many times it ran the body of _schema_catalog
  parses,            \* schema name -> how many times its document was parsed
  catalog_info,      \* thread -> what _schema_catalog() returned to its last call
  writes,            \* how many times the environment changed a document
  calls,             \* how many API calls have been made
  \* ---- _detect_schema_name (MatchSpec)
  m_catalog,         \* _schema_catalog()["schemas"], a dict in insertion order
  columns,           \* the observed column names, df.columns.tolist()
  m_explicit,        \* the schema_name argument of collect_schema_report, or None
  m_i,               \* position of the for loop over catalog.items()
  m_iter,            \* schema_name, overlap and score of the iteration just run
  best,              \* best_schema_name, best_score, best_overlap
  matched,           \* outcome of the matcher: NotYet or (name, score, overlap)
  \* ---- the field validators (ValidateSpec)
  series,            \* the column handed to a validator: its dtype and its values
  v_args,            \* the validator called and its other arguments
  v_result,          \* the validator's result dict, or NotYet
  \* ---- collect_schema_report (ReportSpec)
  df,                \* the dataset: column labels in order and the column of each
  r_info,            \* what _schema_catalog() returns to the call
  r_name,            \* the schema_name argument, or None
  r_pc,              \* where the call stands
  r_spec,            \* schema_spec of line 503
  r_todo,            \* the columns of present_expected the loop has yet to check
  report,            \* the report dict under construction
  \* ---- print_schema_report (RenderSpec)
  printed            \* the lines print_schema_report wrote, or NotYet

parse_vars == <<doc_file, lines, schema_name, line_no, fields, current_field,
                in_field_section, parsed>>
catalog_vars == <<disk, cache, pc, call, building, catalog_info, ret, builds, parses,
                  writes, calls>>
match_vars == <<m_catalog, columns, m_explicit, m_i, m_iter, best, matched>>
validate_vars == <<series, v_args, v_result>>
report_vars == <<df, r_info, r_name, r_pc, r_spec, r_todo, report, printed>>
vars == <<parse_vars, catalog_vars, match_vars, validate_vars, report_vars>>

None == "None"
NotYet == [kind |-> "NotYet"]

\* ------------------------------------------------------------------ bounds
MaxLines == 4      \* longest document ParseSpec draws
MaxWrites == 1     \* document changes the environment makes in Spec
MaxCalls == 2      \* API calls made in Spec
MaxCols == 3       \* longest observed column list MatchSpec draws
MaxRows == 3       \* longest column ValidateSpec draws from its pools
MaxMessages == 7   \* most messages RenderSpec adds to a list of a report

\* --------------------------------------------------------------- the lexer
(* A line is the sequence of its whitespace-separated tokens.  A token is  *)
(* a record [k, n, cs, w]; k is its lexical class:                         *)
(*   "int"     \d+                          n  = its value                 *)
(*   "id"      [A-Z0-9_]+                   cs = its characters            *)
(*   "type"    [A-Z]+\(\d+\)                w  = the letters, n = the size *)
(*   "sep"     a run of = or -              w  = the run                   *)
(*   "codeeq"  [A-Z0-9]{1,10}\s*= ...       w  = the code before the =     *)
(*   "bracket" \[[A-Z0-9,\s/]+\] (any case) cs = the comma-separated items *)
(*   "word"    any other text               w  = the text                  *)
TInt(n) == [k |-> "int", n |-> n, cs |-> <<>>, w |-> ""]
TId(cs) == [k |-> "id", n |-> 0, cs |-> cs, w |-> ""]
TType(w, n) == [k |-> "type", n |-> n, cs |-> <<>>, w |-> w]
TSep(w) == [k |-> "sep", n |-> 0, cs |-> <<>>, w |-> w]
TCodeEq(w) == [k |-> "codeeq", n |-> 0, cs |-> <<>>, w |-> w]
TBracket(cs) == [k |-> "bracket", n |-> 0, cs |-> cs, w |-> ""]
TWord(w) == [k |-> "word", n |-> 0, cs |-> <<>>, w |-> w]

Range(s) == {s[i] : i \in DOMAIN s}

UpperChars == <<"A","B","C","D","E","F","G","H","I","J","K","L","M",
                "N","O","P","Q","R","S","T","U","V","W","X","Y","Z">>
LowerChars == <<"a","b","c","d","e","f","g","h","i","j","k","l","m",
                "n","o","p","q","r","s","t","u","v","w","x","y","z">>
Digits == {"0","1","2","3","4","5","6","7","8","9"}

\* str.lower() and str.upper() on one character
LowerChar(c) ==
  IF \E i \in DOMAIN UpperChars : UpperChars[i] = c
  THEN LowerChars[CHOOSE i \in DOMAIN UpperChars : UpperChars[i] = c]
  ELSE c

UpperChar(c) ==
  IF \E i \in DOMAIN LowerChars : LowerChars[i] = c
  THEN UpperChars[CHOOSE i \in DOMAIN LowerChars : LowerChars[i] = c]
  ELSE c

IsLowerAlnum(c) == c \in Range(LowerChars) \cup Digits

RECURSIVE Join(_)
Join(cs) == IF cs = <<>> THEN "" ELSE cs[1] \o Join(Tail(cs))

\* re.sub(r"[^a-z0-9]+", "_", text): every maximal run outside a-z0-9 becomes one "_"
RECURSIVE CollapseRuns(_)
CollapseRuns(cs) ==
  IF cs = <<>> THEN <<>>
  ELSE IF IsLowerAlnum(cs[1]) THEN <<cs[1]>> \o CollapseRuns(Tail(cs))
  ELSE IF Len(cs) > 1 /\ ~IsLowerAlnum(cs[2]) THEN CollapseRuns(Tail(cs))
  ELSE <<"_">> \o CollapseRuns(Tail(cs))

\* str.strip("_")
RECURSIVE StripLeft(_)
StripLeft(cs) ==
  IF cs # <<>> /\ cs[1] = "_" THEN StripLeft(Tail(cs)) ELSE cs

RECURSIVE StripRight(_)
StripRight(cs) ==
  IF cs # <<>> /\ cs[Len(cs)] = "_" THEN StripRight(SubSeq(cs, 1, Len(cs) - 1)) ELSE cs

\* _normalize_identifier on the characters of a raw name
_normalize_identifier(cs) ==
  LET text == CollapseRuns([i \in DOMAIN cs |-> LowerChar(cs[i])])
      stripped == StripRight(StripLeft(text))
  IN IF stripped = <<>> THEN "column" ELSE Join(stripped)

\* str.upper() on the free-text words the documents use
UpperWord(w) ==
  CASE w = "yyyymmdd" -> "YYYYMMDD"
    [] w = "y/n" -> "Y/N"
    [] w = "or" -> "OR"
    [] OTHER -> w

\* ------------------------------------------------------------ configuration
SchemaNames == <<"complaints", "recalls">>       \* SCHEMA_DOCS.keys(), in order

SCHEMA_DOCS == [complaints |-> "docs/CMPL.txt", recalls |-> "docs/RCL.txt"]

SCHEMA_OPTIONAL_COLUMNS ==
  [complaints |-> {}, recalls |-> {"do_not_drive", "park_outside"}]

SCHEMA_DATE_COLUMNS_OVERRIDES ==
  [complaints |-> {"faildate", "datea", "ldate", "purch_dt", "manuf_dt"},
   recalls |-> {"bgman", "endman", "odate", "rcdate", "datea"}]

Configured == Range(SchemaNames)

\* dict.get(schema_name, set()) on the two tables above
OptionalFor(name) ==
  IF name \in DOMAIN SCHEMA_OPTIONAL_COLUMNS THEN SCHEMA_OPTIONAL_COLUMNS[name] ELSE {}

DateOverridesFor(name) ==
  IF name \in DOMAIN SCHEMA_DATE_COLUMNS_OVERRIDES
  THEN SCHEMA_DATE_COLUMNS_OVERRIDES[name] ELSE {}

\* --------------------------------------------------- line classification
\* "FIELDS:" in line
HasFieldsMarker(line) ==
  \E i \in DOMAIN line : line[i].k = "word" /\ line[i].w = "FIELDS:"

\* stripped == "" or set(stripped) <= {"=", "-"}: tokens are whitespace-separated,
\* so only a line of one separator run has no other character
_is_probably_blank_line(line) ==
  line = <<>> \/ (Len(line) = 1 /\ line[1].k = "sep")

\* FIELD_ROW_PATTERN.match(line): <int> <identifier> <TYPE>(<int>) <anything>
FIELD_ROW_PATTERN(line) ==
  /\ Len(line) >= 3
  /\ line[1].k = "int"
  /\ line[2].k = "id"
  /\ line[3].k = "type"

\* the items of one bracketed list, stripped and upper-cased, empty ones dropped
RECURSIVE BracketItems(_)
BracketItems(items) ==
  IF items = <<>> THEN <<>>
  ELSE LET cleaned == Join([i \in DOMAIN items[1] |-> UpperChar(items[1][i])])
       IN (IF cleaned # "" THEN <<cleaned>> ELSE <<>>) \o BracketItems(Tail(items))

RECURSIVE BracketCodes(_)
BracketCodes(text) ==
  IF text = <<>> THEN <<>>
  ELSE (IF text[1].k = "bracket" THEN BracketItems(text[1].cs) ELSE <<>>)
       \o BracketCodes(Tail(text))

\* _extract_codes_from_line: the code before a leading "=", then every bracketed item
_extract_codes_from_line(text) ==
  (IF text # <<>> /\ text[1].k = "codeeq" THEN <<text[1].w>> ELSE <<>>)
  \o BracketCodes(text)

\* ------------------------------------------------------ _parse_schema_doc
\* a file of the docs directory: doc_path.exists() and its lines
Absent == [exists |-> FALSE, lines |-> <<>>]
Document(ls) == [exists |-> TRUE, lines |-> ls]

\* the dict built for a matching row (lines 116-135)
NewField(line) ==
  LET description_line == SubSeq(line, 4, Len(line))
  IN [index |-> line[1].n,
      name_raw |-> line[2].cs,
      name |-> _normalize_identifier(line[2].cs),
      type |-> line[3].w,
      size |-> line[3].n,
      description_lines |->
        IF description_line # <<>> THEN <<description_line>> ELSE <<>>,
      allowed_codes |->
        IF description_line # <<>>
        THEN _extract_codes_from_line(description_line) ELSE <<>>]

\* current_field[...].append / .extend through the alias into fields (lines 142-147)
Continue(fs, cur, line) ==
  [fs EXCEPT ![cur].description_lines = Append(@, line),
             ![cur].allowed_codes = @ \o _extract_codes_from_line(line)]

\* one iteration of `for line in lines` (lines 103-147) on the loop's state
LoopBody(st, line) ==
  IF HasFieldsMarker(line) THEN [st EXCEPT !.in_field_section = TRUE]
  ELSE IF ~st.in_field_section THEN st
  ELSE IF _is_probably_blank_line(line) THEN st
  ELSE IF FIELD_ROW_PATTERN(line)
    THEN [st EXCEPT !.fields = Append(@, NewField(line)),
                    !.current_field = Len(st.fields) + 1]
  ELSE IF st.current_field = 0 THEN st
  ELSE [st EXCEPT !.fields = Continue(@, st.current_field, line)]

LoopStart == [fields |-> <<>>, current_field |-> 0, in_field_section |-> FALSE]

RECURSIVE Flatten(_)
Flatten(ss) == IF ss = <<>> THEN <<>> ELSE ss[1] \o Flatten(Tail(ss))

\* "YYYYMMDD" in description_text.upper()
MentionsYYYYMMDD(text) ==
  \E i \in DOMAIN text : text[i].k = "word" /\ UpperWord(text[i].w) = "YYYYMMDD"

\* "'Y' OR 'N'" in description_text.upper() or "Y/N" in description_text.upper()
MentionsYesNo(text) ==
  \/ \E i \in DOMAIN text :
       /\ i + 2 <= Len(text)
       /\ text[i].k = "word" /\ UpperWord(text[i].w) = "'Y'"
       /\ text[i + 1].k = "word" /\ UpperWord(text[i + 1].w) = "OR"
       /\ text[i + 2].k = "word" /\ UpperWord(text[i + 2].w) = "'N'"
  \/ \E i \in DOMAIN text :
       \/ text[i].k = "word" /\ UpperWord(text[i].w) = "Y/N"
       \/ text[i].k = "bracket" /\ "Y/N" \in Range(BracketItems(text[i].cs))

\* a sort that puts a field before the earlier fields of the same index
InsertByIndexUnstable(sorted, f) ==
  LET k == Cardinality({i \in DOMAIN sorted : sorted[i].index < f.index})
  IN SubSeq(sorted, 1, k) \o <<f>> \o SubSeq(sorted, k + 1, Len(sorted))

\* sorted(fields, key=index): stable, equal indexes keep document order
InsertByIndex(sorted, f) ==
  LET k == Cardinality({i \in DOMAIN sorted : sorted[i].index <= f.index})
  IN SubSeq(sorted, 1, k) \o <<f>> \o SubSeq(sorted, k + 1, Len(sorted))

RECURSIVE SortedByIndex(_)
SortedByIndex(fs) ==
  IF fs = <<>> THEN <<>>
  ELSE InsertByIndex(SortedByIndex(SubSeq(fs, 1, Len(fs) - 1)), fs[Len(fs)])

\* the normalized field of lines 154-176; the sorted, de-duplicated code list is
\* carried as the set of its elements
NormalizedField(field, name) ==
  LET description_text == Flatten(field.description_lines)
  IN [index |-> field.index,
      name_raw |-> field.name_raw,
      name |-> field.name,
      type |-> field.type,
      size |-> field.size,
      description |-> description_text,
      is_date |-> \/ field.name \in DateOverridesFor(name)
                  \/ MentionsYYYYMMDD(description_text),
      is_yes_no |-> MentionsYesNo(description_text),
      allowed_codes |-> {c \in Range(field.allowed_codes) : c # ""}]

NormalizedFields(fs, name) ==
  LET sorted == SortedByIndex(fs)
  IN [i \in DOMAIN sorted |-> NormalizedField(sorted[i], name)]

\* required_columns without the optional filter
RequiredColumnsUnfiltered(expected, optional) == expected

\* [name for name in expected_columns if name not in optional_columns]
RECURSIVE RequiredColumns(_, _)
RequiredColumns(expected, optional) ==
  IF expected = <<>> THEN <<>>
  ELSE (IF expected[1] \notin optional THEN <<expected[1]>> ELSE <<>>)
       \o RequiredColumns(Tail(expected), optional)

\* a field_map keyed by the names as the document writes them
FieldMapByRawName(nfs) ==
  [n \in {Join(nfs[i].name_raw) : i \in DOMAIN nfs} |->
     nfs[CHOOSE i \in DOMAIN nfs : Join(nfs[i].name_raw) = n]]

\* {field["name"]: field for field in normalized_fields}: a later field replaces
\* an earlier one of the same name
FieldMap(nfs) ==
  [n \in {nfs[i].name : i \in DOMAIN nfs} |->
     nfs[CHOOSE i \in DOMAIN nfs :
           nfs[i].name = n /\ \A j \in DOMAIN nfs : nfs[j].name = n => j <= i]]

\* a raised exception: its class, its message text and what the message names;
\* `cause` is the recorded failure text and `available` the key list a message embeds
NoCause == [msg |-> "", about |-> ""]
RaiseFrom(exc, msg, about, cause, available) ==
  [kind |-> "raise", exc |-> exc, msg |-> msg, about |-> about, cause |-> cause,
   available |-> available]
Raise(exc, msg, about) == RaiseFrom(exc, msg, about, NoCause, {})

\* lines 149-192: what the call returns or raises once the loop has ended
Finish(fs, name) ==
  IF fs = <<>> THEN Raise("ValueError", "No schema fields parsed from", name)
  ELSE
    LET normalized_fields == NormalizedFields(fs, name)
        expected_columns == [i \in DOMAIN normalized_fields |-> normalized_fields[i].name]
        optional_columns == OptionalFor(name)
    IN [kind |-> "schema",
        schema_name |-> name,
        doc_path |-> SCHEMA_DOCS[name],
        fields |-> normalized_fields,
        field_map |-> FieldMap(normalized_fields),
        expected_columns |-> expected_columns,
        required_columns |-> RequiredColumns(expected_columns, optional_columns),
        optional_columns |-> optional_columns]

RECURSIVE RunLoop(_, _)
RunLoop(st, ls) == IF ls = <<>> THEN st ELSE RunLoop(LoopBody(st, ls[1]), Tail(ls))

\* the whole call on a document (or on no document)
_parse_schema_doc(doc, name) ==
  IF ~doc.exists THEN Raise("FileNotFoundError", "Schema doc not found:", name)
  ELSE Finish(RunLoop(LoopStart, doc.lines).fields, name)

\* ------------------------------------------------------------ dictionaries
(* A dict is the sequence of its items [key, value] in insertion order.    *)
Keys(d) == {d[i].key : i \in DOMAIN d}
Get(d, k) == d[CHOOSE i \in DOMAIN d : d[i].key = k].value
Put(d, k, v) ==
  IF k \in Keys(d)
  THEN [i \in DOMAIN d |-> IF d[i].key = k THEN [key |-> k, value |-> v] ELSE d[i]]
  ELSE Append(d, [key |-> k, value |-> v])

\* ---------------------------------------------------------- _schema_catalog
\* the dict _schema_catalog returns; `source` is history, the document each entry
\* was made from
EmptyCatalogInfo == [kind |-> "catalog_info", schemas |-> <<>>, errors |-> <<>>, source |-> <<>>]

\* str(exc) of an exception _parse_schema_doc raised
StrOf(exc) == [msg |-> exc.msg, about |-> exc.about]

\* a build in which one failing document fails every schema
RecordAllOrNothing(info, name, doc) ==
  LET result == _parse_schema_doc(doc, name)
  IN IF result.kind = "schema" /\ info.errors = <<>>
     THEN [info EXCEPT !.schemas = Put(@, name, result), !.source = Put(@, name, doc)]
     ELSE [info EXCEPT !.schemas = <<>>,
                       !.errors = [i \in DOMAIN SchemaNames |->
                                     [key |-> SchemaNames[i],
                                      value |-> [msg |-> "catalog failed", about |-> name]]],
                       !.source = Put(@, name, doc)]

\* lines 200-203: one iteration of the loop over SCHEMA_DOCS.items()
Record(info, name, doc) ==
  LET result == _parse_schema_doc(doc, name)
  IN IF result.kind = "schema"
     THEN [info EXCEPT !.schemas = Put(@, name, result), !.source = Put(@, name, doc)]
     ELSE [info EXCEPT !.errors = Put(@, name, StrOf(result)), !.source = Put(@, name, doc)]

\* lines 197-205: the whole body of _schema_catalog on the documents `docs`
RECURSIVE BuildCatalog(_, _, _)
BuildCatalog(info, names, docs) ==
  IF names = <<>> THEN info
  ELSE BuildCatalog(Record(info, names[1], docs[names[1]]), Tail(names), docs)

\* an lru_cache that never finds its entry
CacheLookupAlwaysMisses(slot) == NotYet

\* @lru_cache(maxsize=1), the lookup: the cached value, or NotYet on a miss
CacheLookup(slot) == slot

\* a cache in which the build that ends last replaces the entry
CacheStoreLatest(slot, value) == value

\* @lru_cache(maxsize=1), after the call: the value is stored unless the key was
\* added while the function ran
CacheStore(slot, value) == IF slot = NotYet THEN value ELSE slot

\* ------------------------------------------------------------ the catalog API
\* get_schema_spec testing the schemas before the errors
get_schema_spec_SchemasFirst(info, name) ==
  IF name \notin Keys(info.schemas)
  THEN RaiseFrom("KeyError", "Schema not found, available:", name, NoCause,
                 Keys(info.schemas))
  ELSE Get(info.schemas, name)

\* lines 208-219, on the catalog_info the call obtained
get_schema_spec(info, name) ==
  IF name \in Keys(info.errors)
  THEN RaiseFrom("RuntimeError", "Schema could not be parsed:", name,
                 Get(info.errors, name), {})
  ELSE IF name \notin Keys(info.schemas)
  THEN RaiseFrom("KeyError", "Schema not found, available:", name, NoCause,
                 Keys(info.schemas))
  ELSE Get(info.schemas, name)

\* lines 222-224
get_schema_columns(info, name) ==
  LET schema_spec == get_schema_spec(info, name)
  IN IF schema_spec.kind = "raise" THEN schema_spec
     ELSE [kind |-> "columns", columns |-> schema_spec.expected_columns]

\* ------------------------------------------------------------- the matcher
(* A score is the exact quotient num/den of the float division.            *)
Rat(n, d) == [num |-> n, den |-> d]
Less(a, b) == a.num * b.den < b.num * a.den
MaxOf(a, b) == IF a >= b THEN a ELSE b
MIN_SCORE == Rat(35, 100)                     \* the literal 0.35 of line 244

\* the score divided by the length of the column list
MatchScoreByListLength(column_set, expected_columns) ==
  LET expected_set == Range(expected_columns)
      overlap == Cardinality(column_set \cap expected_set)
  IN [overlap |-> overlap, score |-> Rat(overlap, MaxOf(Len(expected_columns), 1))]

\* lines 236-238 and 493-495: overlap and score of the columns against one schema
MatchScore(column_set, expected_columns) ==
  LET expected_set == Range(expected_columns)
      overlap == Cardinality(column_set \cap expected_set)
  IN [overlap |-> overlap, score |-> Rat(overlap, MaxOf(Cardinality(expected_set), 1))]

\* lines 231-233
BestStart == [best_schema_name |-> None, best_score |-> Rat(0, 1), best_overlap |-> 0]

\* an update that also replaces the best on an equal score
BetterOrEqual(b, item, m) ==
  IF ~Less(m.score, b.best_score)
  THEN [best_schema_name |-> item.key, best_score |-> m.score, best_overlap |-> m.overlap]
  ELSE b

\* lines 239-242: the update of the best by the schema `item` scoring m
Better(b, item, m) ==
  IF Less(b.best_score, m.score)
  THEN [best_schema_name |-> item.key, best_score |-> m.score, best_overlap |-> m.overlap]
  ELSE b

RECURSIVE DetectLoop(_, _, _)
DetectLoop(b, items, column_set) ==
  IF items = <<>> THEN b
  ELSE DetectLoop(Better(b, items[1],
                         MatchScore(column_set, items[1].value.expected_columns)),
                  Tail(items), column_set)

\* a rejection that forgets the best score and overlap
ThresholdDropsScore(b) ==
  IF Less(b.best_score, MIN_SCORE)
  THEN [kind |-> "match", name |-> None, score |-> Rat(0, 1), overlap |-> 0]
  ELSE [kind |-> "match", name |-> b.best_schema_name, score |-> b.best_score,
        overlap |-> b.best_overlap]

\* lines 244-247
Threshold(b) ==
  [kind |-> "match",
   name |-> IF Less(b.best_score, MIN_SCORE) THEN None ELSE b.best_schema_name,
   score |-> b.best_score,
   overlap |-> b.best_overlap]

\* lines 227-247 on the schemas the call obtained
_detect_schema_name(cols, catalog) == Threshold(DetectLoop(BestStart, catalog, Range(cols)))

\* lines 490-498: an explicit schema_name
ExplicitMatch(cols, name, catalog) ==
  IF name \in Keys(catalog)
  THEN LET m == MatchScore(Range(cols), Get(catalog, name).expected_columns)
       IN [kind |-> "match", name |-> name, score |-> m.score, overlap |-> m.overlap]
  ELSE [kind |-> "match", name |-> name, score |-> Rat(0, 1), overlap |-> 0]

\* bool(name) of a schema name: None and the empty string are false
Truthy(name) == name # None /\ name # ""

\* lines 480-484: one warning for every schema document that failed to parse
CatalogWarnings(info) ==
  [i \in DOMAIN info.errors |->
     [text |-> "Could not parse schema doc for", about |-> info.errors[i].key,
      message |-> info.errors[i].value]]

\* lines 486-498: the schema name, score and overlap the report goes by
MatchResult(cols, name, catalog, detect_catalog) ==
  IF name = None THEN _detect_schema_name(cols, detect_catalog)
  ELSE ExplicitMatch(cols, name, catalog)

\* schema_spec when it is None
NoSchema == [kind |-> "None"]

\* line 503: catalog.get(detected_schema_name) if detected_schema_name else None
SchemaSpecOf(detected_schema_name, catalog) ==
  IF Truthy(detected_schema_name) /\ detected_schema_name \in Keys(catalog)
  THEN Get(catalog, detected_schema_name)
  ELSE NoSchema

\* lines 650-658: the warning of the branch taken when schema_spec is None
NoSchemaWarnings(detected_schema_name, catalog) ==
  IF Truthy(detected_schema_name) /\ detected_schema_name \notin Keys(catalog)
  THEN <<[text |-> "Schema requested but not available",
          about |-> detected_schema_name, message |-> NoCause]>>
  ELSE IF detected_schema_name = None
  THEN <<[text |-> "Could not confidently match dataset columns", about |-> None,
          message |-> NoCause]>>
  ELSE <<>>

\* lines 478-503 and 650-658 of collect_schema_report: the warnings of the catalog's
\* failures, the schema resolution and the warning of a failed resolution.  `info`
\* is the catalog_info of line 478, `detect_info` the one _detect_schema_name gets.
ResolveSchema(cols, name, info, detect_info) ==
  LET catalog == info.schemas
      m == MatchResult(cols, name, catalog, detect_info.schemas)
      schema_spec == SchemaSpecOf(m.name, catalog)
  IN [kind |-> "report",
      schema_name |-> m.name,
      schema_match_score |-> m.score,
      schema_doc_path |-> IF schema_spec # NoSchema THEN schema_spec.doc_path ELSE None,
      warnings |->
        CatalogWarnings(info)
        \o (IF schema_spec # NoSchema THEN <<>> ELSE NoSchemaWarnings(m.name, catalog))]

\* ------------------------------------------------------------- documents
CMPLID == <<"C","M","P","L","I","D">>
DATEA == <<"D","A","T","E","A">>
DATEA_ == <<"D","A","T","E","A","_">>
DO_NOT_DRIVE == <<"D","O","_","N","O","T","_","D","R","I","V","E">>
PARK_OUTSIDE == <<"P","A","R","K","_","O","U","T","S","I","D","E">>

LMarker == <<TWord("FIELDS:")>>
LRule == <<TSep("=")>>
LRowDate == <<TInt(2), TId(DATEA), TType("CHAR", 8)>>
LRowDrive == <<TInt(1), TId(DO_NOT_DRIVE), TType("CHAR", 1),
               TBracket(<< <<"y">>, <<"N">> >>)>>
LRowAgain == <<TInt(2), TId(DATEA_), TType("NUMBER", 4)>>
LRowNote == <<TInt(3), TId(CMPLID), TType("NUMBER", 9), TWord("SEE"), TWord("FIELDS:")>>
LRowPark == <<TInt(3), TId(PARK_OUTSIDE), TType("CHAR", 1), TWord("y/n")>>
LText == <<TCodeEq("Y"), TWord("yyyymmdd")>>
LTextNote == <<TWord("SEE"), TWord("FIELDS:"), TWord("ABOVE")>>

\* the lines ParseSpec builds documents from
LinePool == {LMarker, LRule, LRowDate, LRowDrive, LRowAgain, LRowNote, LText, LTextNote}

RECURSIVE SeqsUpTo(_, _)
SeqsUpTo(S, n) ==
  IF n = 0 THEN {<<>>}
  ELSE LET shorter == SeqsUpTo(S, n - 1)
       IN shorter \cup {Append(s, x) : s \in {t \in shorter : Len(t) = n - 1}, x \in S}

\* --------------------------------------------------- idle parts of a spec
ParseIdle ==
  /\ doc_file = Absent /\ lines = <<>> /\ schema_name = None /\ line_no = 0
  /\ fields = <<>> /\ current_field = 0 /\ in_field_section = FALSE
  /\ parsed = NotYet

CatalogIdle ==
  /\ disk = <<>> /\ cache = NotYet /\ pc = <<>> /\ call = <<>> /\ building = <<>>
  /\ catalog_info = <<>> /\ ret = <<>> /\ builds = <<>> /\ parses = <<>>
  /\ writes = 0 /\ calls = 0

MatchIdle ==
  /\ m_catalog = <<>> /\ columns = <<>> /\ m_explicit = None /\ m_i = 0
  /\ m_iter = NotYet /\ best = NotYet /\ matched = NotYet

ValidateIdle == series = NotYet /\ v_args = NotYet /\ v_result = NotYet

ReportIdle ==
  /\ df = NotYet /\ r_info = NotYet /\ r_name = None /\ r_pc = "idle"
  /\ r_spec = NotYet /\ r_todo = <<>> /\ report = NotYet /\ printed = NotYet

\* ------------------------------------------------------------- ParseSpec
ParseInit ==
  /\ doc_file \in {Absent} \cup {Document(ls) : ls \in SeqsUpTo(LinePool, MaxLines)}
  /\ schema_name \in Configured
  /\ lines = <<>> /\ line_no = 0
  /\ fields = <<>> /\ current_field = 0 /\ in_field_section = FALSE
  /\ parsed = NotYet
  /\ CatalogIdle /\ MatchIdle /\ ValidateIdle /\ ReportIdle

\* lines 93-101: the existence test, the read and the loop's initial state
ParseOpen ==
  /\ line_no = 0 /\ parsed = NotYet
  /\ IF ~doc_file.exists
     THEN /\ parsed' = _parse_schema_doc(doc_file, schema_name)
          /\ UNCHANGED <<lines, line_no>>
     ELSE /\ lines' = doc_file.lines
          /\ line_no' = 1
          /\ UNCHANGED parsed
  /\ fields' = LoopStart.fields
  /\ current_field' = LoopStart.current_field
  /\ in_field_section' = LoopStart.in_field_section
  /\ UNCHANGED <<doc_file, schema_name, catalog_vars, match_vars, validate_vars,
                 report_vars>>

\* lines 103-147: one iteration of the loop
ParseLine ==
  /\ parsed = NotYet /\ line_no \in 1..Len(lines)
  /\ LET st == LoopBody([fields |-> fields, current_field |-> current_field,
                         in_field_section |-> in_field_section], lines[line_no])
     IN /\ fields' = st.fields
        /\ current_field' = st.current_field
        /\ in_field_section' = st.in_field_section
  /\ line_no' = line_no + 1
  /\ UNCHANGED <<doc_file, lines, schema_name, parsed, catalog_vars, match_vars, validate_vars,
                 report_vars>>

\* lines 149-192: the loop has ended
ParseFinish ==
  /\ parsed = NotYet /\ line_no = Len(lines) + 1
  /\ parsed' = Finish(fields, schema_name)
  /\ UNCHANGED <<doc_file, lines, schema_name, line_no, fields, current_field,
                 in_field_section, catalog_vars, match_vars, validate_vars,
                 report_vars>>

ParseNext == ParseOpen \/ ParseLine \/ ParseFinish

ParseSpec == ParseInit /\ [][ParseNext]_vars

\* ------------------------------------------------ properties of the parser
\* the iteration about to run reads lines[line_no]
AtLine == parsed = NotYet /\ line_no \in 1..Len(lines) /\ line_no' = line_no + 1

MarkerBefore(i) == \E j \in 1..(i - 1) : HasFieldsMarker(lines[j])

\* C5: a line before the first FIELDS: line leaves the fields untouched; after it,
\* every non-blank, non-separator line that is not a field row is appended, text
\* and codes, to the most recently started field and to no other, or is dropped
\* when no field has started.
C5_LineAttribution ==
  [][AtLine =>
       LET line == lines[line_no]
       IN /\ (~MarkerBefore(line_no) /\ ~HasFieldsMarker(line)) => fields' = fields
          /\ ( /\ MarkerBefore(line_no)
               /\ ~_is_probably_blank_line(line)
               /\ ~FIELD_ROW_PATTERN(line) )
             => IF fields = <<>> THEN fields' = fields
                ELSE fields' =
                       [fields EXCEPT
                          ![Len(fields)].description_lines = Append(@, line),
                          ![Len(fields)].allowed_codes =
                             @ \o _extract_codes_from_line(line)]]_vars

\* the lines read so far that follow a FIELDS: line, are not blank or separator-only
\* and match the field-row pattern
RowLinesRead ==
  {i \in 1..(line_no - 1) :
     /\ MarkerBefore(i)
     /\ ~_is_probably_blank_line(lines[i])
     /\ FIELD_ROW_PATTERN(lines[i])}

\* C6: once FIELDS: has been seen every later non-blank line matching the field-row
\* pattern starts a field, so there are as many fields as such lines.
C6_FieldPerRowLine == line_no >= 1 => Len(fields) = Cardinality(RowLinesRead)

Names(cols) == Range(cols)

\* C7 as stated: expected and fields have equal length, required is a subset of
\* expected, and required together with optional is exactly expected.
C7_RequiredOptionalCoverExpected ==
  parsed.kind = "schema" =>
    /\ Len(parsed.expected_columns) = Len(parsed.fields)
    /\ Names(parsed.required_columns) \subseteq Names(parsed.expected_columns)
    /\ Names(parsed.required_columns) \cup parsed.optional_columns
         = Names(parsed.expected_columns)

\* C7 as amended: expected and fields have equal length; required is a subset of
\* expected holding no optional column; required together with the optional columns
\* the document declares is exactly expected; optional_columns is the schema's whole
\* configured optional set, declared by the document or not.
C7_RequiredAndDeclaredOptional ==
  parsed.kind = "schema" =>
    /\ Len(parsed.expected_columns) = Len(parsed.fields)
    /\ Len(parsed.expected_columns) = Len(fields)
    /\ Names(parsed.required_columns) \subseteq Names(parsed.expected_columns)
    /\ Names(parsed.required_columns) \cap parsed.optional_columns = {}
    /\ Names(parsed.required_columns)
         \cup (parsed.optional_columns \cap Names(parsed.expected_columns))
         = Names(parsed.expected_columns)
    /\ parsed.optional_columns = SCHEMA_OPTIONAL_COLUMNS[schema_name]

\* a recalls document that declares one optional column, a required column and
\* not the other optional column
C7_Witness ==
  /\ parsed.kind = "schema" /\ schema_name = "recalls"
  /\ "do_not_drive" \in Names(parsed.expected_columns)
  /\ "park_outside" \notin Names(parsed.expected_columns)
  /\ parsed.required_columns # <<>>

\* C8 as stated: no two fields share a normalized name or an index, the list is in
\* increasing index order, and the by-name lookup has one entry per field.
C8_UniqueNamesAndIndexes ==
  parsed.kind = "schema" =>
    /\ \A i, j \in DOMAIN parsed.fields :
         i < j => /\ parsed.fields[i].name # parsed.fields[j].name
                  /\ parsed.fields[i].index < parsed.fields[j].index
    /\ Cardinality(DOMAIN parsed.field_map) = Len(parsed.fields)

\* the fields in index order, found by repeatedly taking the first field of least index
RECURSIVE ByLeastIndexFirst(_)
ByLeastIndexFirst(fs) ==
  IF fs = <<>> THEN <<>>
  ELSE LET i == CHOOSE a \in DOMAIN fs :
                  /\ \A b \in DOMAIN fs : fs[a].index <= fs[b].index
                  /\ \A b \in 1..(a - 1) : fs[b].index > fs[a].index
       IN <<fs[i]>> \o ByLeastIndexFirst(SubSeq(fs, 1, i - 1) \o SubSeq(fs, i + 1, Len(fs)))

Declared(f) == <<f.index, f.name_raw, f.name, f.type, f.size>>

\* C8 as amended: the field list is the accepted rows in non-decreasing index order,
\* rows of equal index keeping their document order; the by-name lookup has one entry
\* per distinct normalized name, the last field of that name in that order.
C8_StableIndexOrderLastNameWins ==
  parsed.kind = "schema" =>
    /\ [i \in DOMAIN parsed.fields |-> Declared(parsed.fields[i])]
         = [i \in DOMAIN fields |-> Declared(ByLeastIndexFirst(fields)[i])]
    /\ \A i, j \in DOMAIN parsed.fields :
         i < j => parsed.fields[i].index <= parsed.fields[j].index
    /\ DOMAIN parsed.field_map = {parsed.fields[i].name : i \in DOMAIN parsed.fields}
    /\ \A i \in DOMAIN parsed.fields :
         (\A j \in DOMAIN parsed.fields : j > i => parsed.fields[j].name # parsed.fields[i].name)
           => parsed.field_map[parsed.fields[i].name] = parsed.fields[i]

\* rows out of index order, two of them sharing index and normalized name under
\* different raw names
C8_Witness ==
  /\ parsed.kind = "schema"
  /\ \E i, j \in DOMAIN fields : i < j /\ fields[i].index > fields[j].index
  /\ \E i, j \in DOMAIN parsed.fields :
       /\ i < j
       /\ parsed.fields[i].index = parsed.fields[j].index
       /\ parsed.fields[i].name = parsed.fields[j].name
       /\ parsed.fields[i].name_raw # parsed.fields[j].name_raw
  /\ Cardinality(DOMAIN parsed.field_map) < Len(parsed.fields)

\* ------------------------------------------------------------------ Spec
\* two threads, numbered in the order of their first call
Threads == {1, 2}

DocFull == Document(<<LMarker, LRowDrive, LRowDate>>)
DocShort == Document(<<LMarker, LRule, LRowDate, LText>>)
DocNoRows == Document(<<LRule, LText>>)
DocTwice == Document(<<LMarker, LRowDate, LRowAgain>>)
DocThree == Document(<<LMarker, LRowDrive, LRowDate, LRowPark>>)

\* what the docs directory can hold for one schema
DiskPool == {Absent, DocNoRows, DocFull}

Unconfigured == "vehicles"                    \* a schema name SCHEMA_DOCS lacks
NoCall == [op |-> None, name |-> None, cols |-> <<>>]
SomeColumns == <<"do_not_drive", "datea", "source_zip">>

CallPool ==
  {[op |-> "get_schema_spec", name |-> n, cols |-> <<>>] :
     n \in Configured \cup {Unconfigured}}
  \cup {[op |-> "get_schema_columns", name |-> "recalls", cols |-> <<>>]}
  \cup {[op |-> "collect_schema_report", name |-> None, cols |-> SomeColumns]}

Init ==
  /\ disk \in [Configured -> DiskPool]
  /\ cache = NotYet
  /\ pc = [t \in Threads |-> "idle"]
  /\ call = [t \in Threads |-> NoCall]
  /\ building = [t \in Threads |-> NotYet]
  /\ catalog_info = [t \in Threads |-> NotYet]
  /\ ret = [t \in Threads |-> NotYet]
  /\ builds = [t \in Threads |-> 0]
  /\ parses = [n \in Configured |-> 0]
  /\ writes = 0 /\ calls = 0
  /\ ParseIdle /\ MatchIdle /\ ValidateIdle /\ ReportIdle

\* what the call c returns or raises, given the catalog_info its first
\* _schema_catalog() returned and the one a later _schema_catalog() returns
Respond(c, info, later) ==
  CASE c.op = "get_schema_spec" -> get_schema_spec(info, c.name)
    [] c.op = "get_schema_columns" -> get_schema_columns(info, c.name)
    [] c.op = "collect_schema_report" -> ResolveSchema(c.cols, c.name, info, later)

\* a thread calls the API.  On a hit of the lru_cache the whole call runs; on a miss
\* the thread enters the body of _schema_catalog.
Call(t, c) ==
  /\ pc[t] = "idle" /\ calls < MaxCalls
  /\ \A u \in Threads : u < t => call[u] # NoCall
  /\ calls' = calls + 1
  /\ call' = [call EXCEPT ![t] = c]
  /\ IF CacheLookup(cache) # NotYet
     THEN /\ catalog_info' = [catalog_info EXCEPT ![t] = CacheLookup(cache)]
          /\ ret' = [ret EXCEPT ![t] = Respond(c, CacheLookup(cache), CacheLookup(cache))]
          /\ UNCHANGED <<pc, building, builds>>
     ELSE /\ pc' = [pc EXCEPT ![t] = "build"]
          /\ building' = [building EXCEPT ![t] = EmptyCatalogInfo]
          /\ builds' = [builds EXCEPT ![t] = @ + 1]
          /\ UNCHANGED <<catalog_info, ret>>
  /\ UNCHANGED <<disk, cache, parses, writes, parse_vars, match_vars, validate_vars, report_vars>>

\* a build that fills a dict every caller shares, visible after each document
BuildStepShared(t) ==
  /\ pc[t] = "build" /\ Len(building[t].source) < Len(SchemaNames)
  /\ LET name == SchemaNames[Len(building[t].source) + 1]
     IN /\ building' = [building EXCEPT ![t] = Record(@, name, disk[name])]
        /\ cache' = Record(building[t], name, disk[name])
        /\ parses' = [parses EXCEPT ![name] = @ + 1]
  /\ UNCHANGED <<disk, pc, call, catalog_info, ret, builds, writes, calls,
                 parse_vars, match_vars, validate_vars, report_vars>>

\* lines 199-203: the body of _schema_catalog handles the next configured document
BuildStep(t) ==
  /\ pc[t] = "build" /\ Len(building[t].source) < Len(SchemaNames)
  /\ LET name == SchemaNames[Len(building[t].source) + 1]
     IN /\ building' = [building EXCEPT ![t] = Record(@, name, disk[name])]
        /\ parses' = [parses EXCEPT ![name] = @ + 1]
  /\ UNCHANGED <<disk, cache, pc, call, catalog_info, ret, builds, writes, calls,
                 parse_vars, match_vars, validate_vars, report_vars>>

\* BuildReturn with the result handed to the caller and never stored
BuildReturnUnstored(t) ==
  /\ pc[t] = "build" /\ Len(building[t].source) = Len(SchemaNames)
  /\ catalog_info' = [catalog_info EXCEPT ![t] = building[t]]
  /\ ret' = [ret EXCEPT ![t] = Respond(call[t], building[t], building[t])]
  /\ pc' = [pc EXCEPT ![t] = "idle"]
  /\ building' = [building EXCEPT ![t] = NotYet]
  /\ UNCHANGED <<disk, cache, call, builds, parses, writes, calls, parse_vars,
                 match_vars, validate_vars, report_vars>>

\* line 205 and the rest of the call: _schema_catalog returns its dict, the lru_cache
\* stores it unless another thread's is there already, and the call completes
BuildReturn(t) ==
  /\ pc[t] = "build" /\ Len(building[t].source) = Len(SchemaNames)
  /\ cache' = CacheStore(cache, building[t])
  /\ catalog_info' = [catalog_info EXCEPT ![t] = building[t]]
  /\ ret' = [ret EXCEPT ![t] = Respond(call[t], building[t], cache')]
  /\ pc' = [pc EXCEPT ![t] = "idle"]
  /\ building' = [building EXCEPT ![t] = NotYet]
  /\ UNCHANGED <<disk, call, builds, parses, writes, calls, parse_vars, match_vars, validate_vars, report_vars>>

\* the environment creates, changes or removes a schema document
EnvWrite(name, doc) ==
  /\ writes < MaxWrites /\ doc # disk[name]
  /\ disk' = [disk EXCEPT ![name] = doc]
  /\ writes' = writes + 1
  /\ UNCHANGED <<cache, pc, call, building, catalog_info, ret, builds, parses, calls,
                 parse_vars, match_vars, validate_vars, report_vars>>

Next ==
  \/ \E t \in Threads, c \in CallPool : Call(t, c)
  \/ \E t \in Threads : BuildStep(t)
  \/ \E t \in Threads : BuildReturn(t)
  \/ \E name \in Configured, doc \in DiskPool : EnvWrite(name, doc)

Spec == Init /\ [][Next]_vars

\* ----------------------------------------------- properties of the catalog
\* thread t has completed a call: ret[t] answers call[t] from catalog_info[t]
Finished(t) == pc[t] = "idle" /\ call[t] # NoCall

\* the schema documents of DiskPool, parsed
Parsed == [doc \in DiskPool, name \in Configured |-> _parse_schema_doc(doc, name)]
Parses(doc, name) == Parsed[doc, name].kind = "schema"

\* C1: when the document of a configured schema A was missing or gave no field rows
\* and the document of another configured schema B parsed, get_schema_spec(B) and
\* get_schema_columns(B) return B's parsed schema, and the failure is recorded for
\* A only.
C1_FailureIsolation ==
  \A t \in Threads :
    (Finished(t) /\ call[t].op \in {"get_schema_spec", "get_schema_columns"}) =>
      \A A, B \in Configured :
        ( /\ A # B /\ call[t].name = B
          /\ ~Parses(Get(catalog_info[t].source, A), A)
          /\ Parses(Get(catalog_info[t].source, B), B) )
        => LET schema == Parsed[Get(catalog_info[t].source, B), B]
           IN /\ ret[t] = IF call[t].op = "get_schema_spec" THEN schema
                          ELSE [kind |-> "columns", columns |-> schema.expected_columns]
              /\ Keys(catalog_info[t].errors) = {A}
              /\ Keys(catalog_info[t].schemas) = {B}

\* get_schema_spec("recalls") answered with the schema while the complaints
\* document had no field rows
C1_Witness ==
  \E t \in Threads :
    /\ Finished(t) /\ call[t].op = "get_schema_spec" /\ call[t].name = "recalls"
    /\ Get(catalog_info[t].source, "complaints") = DocNoRows
    /\ ret[t].kind = "schema"
    /\ Keys(catalog_info[t].errors) = {"complaints"}

SingleThreaded == \E t \in Threads : \A u \in Threads \ {t} : call[u] = NoCall

\* C2: in single-threaded use every configured document is parsed at most once, by
\* the one build of the first catalog access, and every completed call answers from
\* the entry recorded then, whatever has happened to the documents since.
C2_BuiltOnceNeverInvalidated ==
  SingleThreaded =>
    /\ \A n \in Configured : parses[n] <= 1
    /\ \A t \in Threads : builds[t] <= 1
    /\ \A t \in Threads :
         Finished(t) =>
           /\ \A n \in Configured : parses[n] = 1
           /\ cache # NotYet
           /\ catalog_info[t] = cache
           /\ ret[t] = Respond(call[t], cache, cache)

\* what a build would record from the documents now on disk
Fresh == BuildCatalog(EmptyCatalogInfo, SchemaNames, disk)

\* a second call answered from the entry of the first build and not as the
\* documents now on disk would have it (a call that hits the cache does not read
\* the disk, so the state is the same whether the change came before the call)
C2_Witness ==
  /\ SingleThreaded /\ calls = 2 /\ writes = 1
  /\ \E t \in Threads :
       /\ Finished(t) /\ builds[t] = 1
       /\ \E n \in Configured : Get(cache.source, n) # disk[n]
       /\ ret[t] # Respond(call[t], Fresh, Fresh)

\* C3: the build is not guarded against concurrent first access: every thread whose
\* first access finds the cache empty runs the build, so with two threads the
\* documents can be parsed twice; a thread never builds twice, because the cache is
\* filled once its first access has returned.
C3_OneBuildPerThreadFindingCacheEmpty ==
  /\ \A t \in Threads : builds[t] <= 1
  /\ \A n \in Configured : parses[n] <= Cardinality({t \in Threads : builds[t] = 1})
  /\ cache = NotYet => \A t \in Threads : ~Finished(t)

\* two threads both built, every document was parsed twice, and the two threads
\* were handed different catalogs
C3_Witness ==
  /\ \A t \in Threads : Finished(t) /\ builds[t] = 1
  /\ \A n \in Configured : parses[n] = 2
  /\ catalog_info[1] # catalog_info[2]
  /\ cache = catalog_info[1]

\* the spec's error kinds in the code's exception classes
NotFoundError == "FileNotFoundError"
ParseError == "ValueError"
LookupError == "KeyError"

GetSpecDone(t) == Finished(t) /\ call[t].op = "get_schema_spec"

\* C4 as stated: get_schema_spec(name) fails with LookupError exactly when name was
\* never configured; for a configured name it raises NotFoundError when the document
\* was absent, ParseError when it was present with no field rows, and otherwise
\* returns the cached schema.
C4_ReRaisesRecordedErrorKind ==
  \A t \in Threads :
    GetSpecDone(t) =>
      LET name == call[t].name
          r == ret[t]
      IN /\ (r.kind = "raise" /\ r.exc = LookupError) <=> name \notin Configured
         /\ name \in Configured =>
              LET doc == Get(catalog_info[t].source, name)
              IN IF ~doc.exists THEN r.kind = "raise" /\ r.exc = NotFoundError
                 ELSE IF ~Parses(doc, name) THEN r.kind = "raise" /\ r.exc = ParseError
                 ELSE r = Get(catalog_info[t].schemas, name)

\* C4 as amended: LookupError exactly when name was never configured; for a
\* configured name whose document failed, a RuntimeError in both cases, carrying the
\* message recorded for that name (document not found, or no fields parsed);
\* otherwise the cached schema.
C4_RaisesRuntimeErrorWithRecordedMessage ==
  \A t \in Threads :
    GetSpecDone(t) =>
      LET name == call[t].name
          r == ret[t]
      IN /\ (r.kind = "raise" /\ r.exc = LookupError) <=> name \notin Configured
         /\ name \in Configured =>
              LET doc == Get(catalog_info[t].source, name)
              IN IF ~doc.exists
                 THEN /\ r.kind = "raise" /\ r.exc = "RuntimeError" /\ r.about = name
                      /\ r.cause = [msg |-> "Schema doc not found:", about |-> name]
                 ELSE IF ~Parses(doc, name)
                 THEN /\ r.kind = "raise" /\ r.exc = "RuntimeError" /\ r.about = name
                      /\ r.cause = [msg |-> "No schema fields parsed from", about |-> name]
                 ELSE r = Get(catalog_info[t].schemas, name)

\* get_schema_spec of a configured schema whose document was absent, and of one
\* whose document had no field rows
C4_Witness ==
  \E t, u \in Threads :
    /\ GetSpecDone(t) /\ call[t].name \in Configured
    /\ ~Get(catalog_info[t].source, call[t].name).exists
    /\ ret[t].kind = "raise"
    /\ GetSpecDone(u) /\ call[u].name \in Configured
    /\ Get(catalog_info[u].source, call[u].name) = DocNoRows
    /\ ret[u].kind = "raise"

\* ------------------------------------------------------------- MatchSpec
\* the documents the matched catalogs are built from, and the column names observed
MatchDocPool == {Absent, DocShort, DocFull, DocTwice, DocThree}
ColPool == {"datea", "do_not_drive", "park_outside", "source_zip"}

MatchInit ==
  /\ m_catalog \in {BuildCatalog(EmptyCatalogInfo, SchemaNames, docs).schemas :
                      docs \in [Configured -> MatchDocPool]}
  /\ columns \in SeqsUpTo(ColPool, MaxCols)
  /\ m_explicit \in {None, Unconfigured} \cup Configured
  /\ m_i = 1 /\ m_iter = NotYet /\ best = BestStart /\ matched = NotYet
  /\ ParseIdle /\ CatalogIdle /\ ValidateIdle /\ ReportIdle

\* lines 235-242: one iteration of the loop over catalog.items()
MatchStep ==
  /\ m_explicit = None /\ matched = NotYet /\ m_i \in DOMAIN m_catalog
  /\ LET item == m_catalog[m_i]
         m == MatchScore(Range(columns), item.value.expected_columns)
     IN /\ m_iter' = [kind |-> "iter", schema_name |-> item.key,
                      overlap |-> m.overlap, score |-> m.score]
        /\ best' = Better(best, item, m)
  /\ m_i' = m_i + 1
  /\ UNCHANGED <<m_catalog, columns, m_explicit, matched, parse_vars, catalog_vars, validate_vars, report_vars>>

\* lines 244-247: the loop has ended
MatchFinish ==
  /\ m_explicit = None /\ matched = NotYet /\ m_i = Len(m_catalog) + 1
  /\ matched' = Threshold(best)
  /\ UNCHANGED <<m_catalog, columns, m_explicit, m_i, m_iter, best, parse_vars,
                 catalog_vars, validate_vars, report_vars>>

\* lines 490-498: the caller named the schema
MatchExplicit ==
  /\ m_explicit # None /\ matched = NotYet
  /\ matched' = ExplicitMatch(columns, m_explicit, m_catalog)
  /\ UNCHANGED <<m_catalog, columns, m_explicit, m_i, m_iter, best, parse_vars,
                 catalog_vars, validate_vars, report_vars>>

MatchNext == MatchStep \/ MatchFinish \/ MatchExplicit

MatchSpec == MatchInit /\ [][MatchNext]_vars

\* ----------------------------------------------- properties of the matcher
InUnit(score) == 0 <= score.num /\ score.num <= score.den /\ score.den >= 1
SameScore(a, b) == a.num * b.den = b.num * a.den

\* the score of `overlap` against the expected columns `expected`, with what the
\* claim says of it: overlap / max(|expected|, 1), within [0, 1], 1 for exactly the
\* expected columns, never smaller for a larger overlap
ScoreAsClaimed(overlap, score, expected) ==
  /\ InUnit(score)
  /\ overlap = Cardinality(Range(columns) \cap Range(expected))
  /\ score.num * MaxOf(Cardinality(Range(expected)), 1) = overlap * score.den
  /\ Range(columns) = Range(expected) => score.num = score.den
  /\ \A other \in SUBSET ColPool :
       LET m == MatchScore(other, expected)
       IN /\ m.overlap >= overlap => ~Less(m.score, score)
          /\ InUnit(m.score)

\* C9: against every catalog schema the score overlap / max(|expected_columns|, 1)
\* lies in [0, 1], is 1 when the observed columns are exactly the expected ones and
\* never falls when the overlap grows, in auto-detection and with an explicit schema.
C9_ScoreInUnitInterval ==
  /\ m_iter # NotYet =>
       ScoreAsClaimed(m_iter.overlap, m_iter.score,
                      Get(m_catalog, m_iter.schema_name).expected_columns)
  /\ matched # NotYet =>
       /\ InUnit(matched.score)
       /\ (m_explicit # None /\ m_explicit \in Keys(m_catalog)) =>
            ScoreAsClaimed(matched.overlap, matched.score,
                           Get(m_catalog, m_explicit).expected_columns)

\* a schema whose expected_columns list repeats a name, scored 1 in both modes by
\* exactly its columns, and a schema scored strictly between 0 and 1
C9_Witness ==
  /\ matched # NotYet /\ Len(columns) >= 2
  /\ \/ /\ m_explicit = None /\ Len(m_catalog) = 2
        /\ Range(columns) = Range(m_catalog[2].value.expected_columns)
        /\ Len(m_catalog[2].value.expected_columns) > Cardinality(Range(columns))
        /\ m_iter.score.num = m_iter.score.den
        /\ 0 < matched.score.num /\ matched.score.num < matched.score.den
     \/ /\ m_explicit \in Keys(m_catalog)
        /\ Range(columns) = Range(Get(m_catalog, m_explicit).expected_columns)
        /\ Len(Get(m_catalog, m_explicit).expected_columns) > Cardinality(Range(columns))
        /\ matched.score.num = matched.score.den

Scored(name) == MatchScore(Range(columns), Get(m_catalog, name).expected_columns)

\* the positions in SCHEMA_DOCS of the catalog schemas no other schema outscores
TopPositions ==
  {k \in DOMAIN SchemaNames :
     /\ SchemaNames[k] \in Keys(m_catalog)
     /\ \A n \in Keys(m_catalog) : ~Less(Scored(SchemaNames[k]).score, Scored(n).score)}

FirstTop == SchemaNames[CHOOSE k \in TopPositions : \A j \in TopPositions : k <= j]

Orderings(s) ==
  {[i \in DOMAIN s |-> s[p[i]]] :
     p \in {q \in [DOMAIN s -> DOMAIN s] : \A i, j \in DOMAIN s : q[i] = q[j] => i = j}}

\* C10: auto-detection selects the schema of highest score, among several of that
\* score the one first in SCHEMA_DOCS, and selects the same for every ordering of
\* the observed columns (no schema is selected when that score is below 0.35).
C10_FirstRegisteredBestWins ==
  (matched # NotYet /\ m_explicit = None) =>
    /\ m_catalog = <<>> => matched.name = None /\ matched.score.num = 0
    /\ m_catalog # <<>> =>
         /\ SameScore(matched.score, Scored(FirstTop).score)
         /\ matched.overlap = Scored(FirstTop).overlap
         /\ matched.name = IF Less(Scored(FirstTop).score, MIN_SCORE) THEN None
                           ELSE FirstTop
    /\ \A p \in Orderings(columns) : _detect_schema_name(p, m_catalog) = matched

\* two schemas of different expected columns tie on the highest score and the one
\* registered first is selected
C10_Witness ==
  /\ matched # NotYet /\ m_explicit = None
  /\ Keys(m_catalog) = Configured
  /\ SameScore(Scored("complaints").score, Scored("recalls").score)
  /\ Range(Get(m_catalog, "complaints").expected_columns)
       # Range(Get(m_catalog, "recalls").expected_columns)
  /\ matched.name = "complaints"
  /\ Cardinality(Range(columns)) >= 2

\* the observed columns score at least 0.35
AtLeastMinScore(score) == score.num * 100 >= 35 * score.den

\* C11: auto-detection returns a schema exactly when the best score is at least
\* 0.35 and otherwise returns no schema with that best score and overlap; with an
\* explicit schema name score and overlap are those against that schema alone, and
\* the schema is the one the report validates against, whatever the score.
C11_ThresholdOnlyInAutoDetection ==
  matched # NotYet =>
    IF m_explicit = None
    THEN /\ matched.name # None <=> (m_catalog # <<>> /\ AtLeastMinScore(matched.score))
         /\ matched.name # None => matched.name \in Keys(m_catalog)
         /\ m_catalog = <<>> => matched.score.num = 0 /\ matched.overlap = 0
         /\ m_catalog # <<>> =>
              /\ SameScore(matched.score, Scored(FirstTop).score)
              /\ matched.overlap = Scored(FirstTop).overlap
    ELSE /\ matched.name = m_explicit
         /\ IF m_explicit \in Keys(m_catalog)
            THEN LET expected == Range(Get(m_catalog, m_explicit).expected_columns)
                     info == [EmptyCatalogInfo EXCEPT !.schemas = m_catalog]
                 IN /\ matched.overlap = Cardinality(Range(columns) \cap expected)
                    /\ matched.score.num * MaxOf(Cardinality(expected), 1)
                         = matched.overlap * matched.score.den
                    /\ ResolveSchema(columns, m_explicit, info, info).schema_doc_path
                         = Get(m_catalog, m_explicit).doc_path
            ELSE matched.score.num = 0 /\ matched.overlap = 0

\* auto-detection rejects a best score of one third, handing it back with its
\* overlap of one column
C11_Witness ==
  /\ matched # NotYet /\ m_explicit = None
  /\ matched.name = None
  /\ matched.overlap = 1 /\ matched.score.num * 3 = matched.score.den

\* an explicit schema none of whose columns is observed is still the schema used
C11_WitnessExplicit ==
  /\ matched # NotYet /\ m_explicit \in Keys(m_catalog)
  /\ matched.name = m_explicit /\ matched.score.num = 0 /\ Len(columns) >= 1

\* ------------------------------------------------------------ cell text
(* A cell of a column is missing (pd.NA, NaN, None, NaT) or holds text, the        *)
(* sequence of its characters.  A column is a pandas Series: its dtype and cells.  *)
NA == [na |-> TRUE, text |-> <<>>]
Text(cs) == [na |-> FALSE, text |-> cs]
Series(dtype, values) == [dtype |-> dtype, values |-> values]

DigitChars == <<"0","1","2","3","4","5","6","7","8","9">>
DigitValue(c) == (CHOOSE i \in DOMAIN DigitChars : DigitChars[i] = c) - 1

\* ord(c), for the characters cells are written in
Ord(c) ==
  CASE c = " " -> 32
    [] c = "+" -> 43
    [] c = "-" -> 45
    [] c = "." -> 46
    [] c \in Digits -> 48 + DigitValue(c)
    [] c \in Range(UpperChars) -> 64 + (CHOOSE i \in DOMAIN UpperChars : UpperChars[i] = c)
    [] c \in Range(LowerChars) -> 96 + (CHOOSE i \in DOMAIN LowerChars : LowerChars[i] = c)

\* a < b as Python compares str: by the first differing character, a proper prefix first
RECURSIVE StrLess(_, _)
StrLess(a, b) ==
  IF b = <<>> THEN FALSE
  ELSE IF a = <<>> THEN TRUE
  ELSE IF a[1] = b[1] THEN StrLess(Tail(a), Tail(b))
  ELSE Ord(a[1]) < Ord(b[1])

\* sorted(set of str)
RECURSIVE SortedStrs(_)
SortedStrs(S) ==
  IF S = {} THEN <<>>
  ELSE LET least == CHOOSE x \in S : \A y \in S : y = x \/ StrLess(x, y)
       IN <<least>> \o SortedStrs(S \ {least})

\* values[:n]
FirstN(values, n) == SubSeq(values, 1, IF Len(values) < n THEN Len(values) ELSE n)

\* str.strip()
RECURSIVE LStrip(_)
LStrip(cs) == IF cs # <<>> /\ cs[1] = " " THEN LStrip(Tail(cs)) ELSE cs
RECURSIVE RStrip(_)
RStrip(cs) ==
  IF cs # <<>> /\ cs[Len(cs)] = " " THEN RStrip(SubSeq(cs, 1, Len(cs) - 1)) ELSE cs
Strip(cs) == RStrip(LStrip(cs))

\* str.upper()
Upper(cs) == [i \in DOMAIN cs |-> UpperChar(cs[i])]

\* lines 62-64: astype("string").str.strip(), then "" becomes pd.NA
_clean_text_series(ser) ==
  [i \in DOMAIN ser.values |->
     IF ser.values[i].na \/ Strip(ser.values[i].text) = <<>> THEN NA
     ELSE Text(Strip(ser.values[i].text))]

\* is_datetime64_any_dtype(series)
is_datetime64_any_dtype(ser) == ser.dtype = "datetime64"

\* int(mask.sum()) for a mask given as the set of its positions
CountOf(mask) == Cardinality(mask)

\* --------------------------------------------------------- pd.to_numeric
RECURSIVE TakeDigits(_)
TakeDigits(cs) ==
  IF cs # <<>> /\ cs[1] \in Digits THEN <<cs[1]>> \o TakeDigits(Tail(cs)) ELSE <<>>

Drop(cs, n) == SubSeq(cs, n + 1, Len(cs))

RECURSIVE DigitsValue(_)
DigitsValue(ds) ==
  IF ds = <<>> THEN 0
  ELSE 10 * DigitsValue(SubSeq(ds, 1, Len(ds) - 1)) + DigitValue(ds[Len(ds)])

NaN == [nan |-> TRUE, negative |-> FALSE, int_digits |-> <<>>, frac_digits |-> <<>>,
        exponent |-> 0]

\* the number a text denotes: [sign] digits [. digits] [e [sign] digits], with a digit
\* before or after the point, surrounding blanks ignored; anything else is not a number.
\* The text is read left to right: the exponent last ...
ParseExponent(negative, int_digits, frac_digits, rest) ==
  LET has_exp == rest # <<>> /\ rest[1] \in {"e", "E"}
      esigned == has_exp /\ Len(rest) >= 2 /\ rest[2] \in {"+", "-"}
      ebody == IF esigned THEN Drop(rest, 2) ELSE IF has_exp THEN Drop(rest, 1) ELSE <<>>
  IN IF \/ Len(int_digits) + Len(frac_digits) = 0
        \/ ~has_exp /\ rest # <<>>
        \/ has_exp /\ (ebody = <<>> \/ TakeDigits(ebody) # ebody)
     THEN NaN
     ELSE [nan |-> FALSE,
           negative |-> negative,
           int_digits |-> int_digits,
           frac_digits |-> frac_digits,
           exponent |-> IF ~has_exp THEN 0
                        ELSE IF esigned /\ rest[2] = "-" THEN 0 - DigitsValue(ebody)
                        ELSE DigitsValue(ebody)]

\* ... before it the digits after a point ...
ParseFraction(negative, int_digits, rest) ==
  IF rest # <<>> /\ rest[1] = "."
  THEN ParseExponent(negative, int_digits, TakeDigits(Tail(rest)),
                     Drop(rest, 1 + Len(TakeDigits(Tail(rest)))))
  ELSE ParseExponent(negative, int_digits, <<>>, rest)

\* ... before them the digits of the integer part ...
ParseDigits(negative, body) ==
  ParseFraction(negative, TakeDigits(body), Drop(body, Len(TakeDigits(body))))

\* ... and first the sign
ParseSigned(cs) ==
  IF cs # <<>> /\ cs[1] \in {"+", "-"} THEN ParseDigits(cs[1] = "-", Tail(cs))
  ELSE ParseDigits(FALSE, cs)

ParseNumber(raw) == ParseSigned(Strip(raw))

\* pd.to_numeric(cell, errors="coerce"): NaN for a missing cell and for text that is
\* not a number
to_numeric(cell) == IF cell.na THEN NaN ELSE ParseNumber(cell.text)

Zeros(n) == [i \in 1..n |-> "0"]

\* the decimal digits of the number after its point
FractionDigits(x) ==
  LET all_digits == x.int_digits \o x.frac_digits
      point == Len(x.int_digits) + x.exponent
  IN IF point >= Len(all_digits) THEN <<>>
     ELSE IF point < 0 THEN Zeros(0 - point) \o all_digits
     ELSE Drop(all_digits, point)

\* (x % 1).abs() < 1e-9, where x % 1 lies in [0, 1) also for a negative x
IsIntegral(x) ==
  LET frac == FractionDigits(x)
      first9 == DOMAIN frac \cap 1..9
  IN \/ \A i \in DOMAIN frac : frac[i] = "0"
     \/ ~x.negative /\ \A i \in first9 : frac[i] = "0"
     \/ /\ x.negative /\ Len(frac) > 9
        /\ \A i \in 1..9 : frac[i] = "9"
        /\ \E i \in 10..Len(frac) : frac[i] # "0"

\* a digit count that takes in the sign, the point and the exponent mark
DigitCountOfWholeText(cs) == Len(cs)

\* str.replace(r"[^\d]", "").str.len(): how many digit characters the text has
DigitCount(cs) == Cardinality({i \in DOMAIN cs : cs[i] \in Digits})

RECURSIVE Pow10(_)
Pow10(n) == IF n = 0 THEN 1 ELSE 10 * Pow10(n - 1)

\* the value of a number as the quotient num/den
NumValue(x) ==
  LET mantissa == DigitsValue(x.int_digits \o x.frac_digits)
      scale == x.exponent - Len(x.frac_digits)
      sign == IF x.negative THEN 0 - 1 ELSE 1
  IN IF scale >= 0 THEN Rat(sign * mantissa * Pow10(scale), 1)
     ELSE Rat(sign * mantissa, Pow10(0 - scale))

\* -------------------------------------------------------- the validators
\* the examples of a validator: sorted(distinct texts at the mask's positions)[:n]
Examples(text, mask, n) == FirstN(SortedStrs({text[i].text : i \in mask}), n)

\* lines 311-360
_validate_numeric_field(ser, max_digits) ==
  LET text == _clean_text_series(ser)
      non_null_mask == {i \in DOMAIN text : ~text[i].na}
      numeric_values == [i \in DOMAIN text |-> to_numeric(text[i])]
      non_numeric_mask == {i \in non_null_mask : numeric_values[i].nan}
      parseable_mask == {i \in non_null_mask : ~numeric_values[i].nan}
      non_integer_mask == {i \in parseable_mask : ~IsIntegral(numeric_values[i])}
      overflow_mask == {i \in parseable_mask : DigitCount(text[i].text) > max_digits}
      total_invalid_mask == non_numeric_mask \cup non_integer_mask
  IN [checked |-> TRUE,
      non_null_count |-> CountOf(non_null_mask),
      non_numeric_count |-> CountOf(non_numeric_mask),
      non_integer_count |-> CountOf(non_integer_mask),
      digits_overflow_count |-> CountOf(overflow_mask),
      invalid_examples |->
        IF CountOf(non_numeric_mask) > 0 \/ CountOf(non_integer_mask) > 0
        THEN Examples(text, total_invalid_mask, 5)
        ELSE <<>>]

\* line 292: the texts counted as zero placeholders
ZERO_PLACEHOLDERS ==
  {<<"0">>, <<"0","0","0","0","0","0","0","0">>,
   <<"0","0","0","0","-","0","0","-","0","0">>}

\* text.str.fullmatch(r"\d{8}")
IsEightDigits(cs) == Len(cs) = 8 /\ \A i \in DOMAIN cs : cs[i] \in Digits

IsLeapYear(y) == (y % 4 = 0 /\ y % 100 # 0) \/ y % 400 = 0

DaysInMonth(y, m) ==
  IF m \in {4, 6, 9, 11} THEN 30
  ELSE IF m = 2 THEN (IF IsLeapYear(y) THEN 29 ELSE 28)
  ELSE 31

\* pd.to_datetime(text, format="%Y%m%d", errors="coerce").isna() for text of eight
\* digits: NaT unless year, month and day make a date of the calendar.  Line 301
\* counts any other text invalid whatever to_datetime makes of it.
IsNaT(cs) ==
  \/ ~IsEightDigits(cs)
  \/ LET y == DigitsValue(SubSeq(cs, 1, 4))
         m == DigitsValue(SubSeq(cs, 5, 6))
         d == DigitsValue(SubSeq(cs, 7, 8))
     IN ~(y >= 1 /\ m \in 1..12 /\ d >= 1 /\ d <= DaysInMonth(y, m))

\* a date check that also counts the zero placeholders invalid
DateCheckMaskWithPlaceholders(non_null_mask, zero_mask) == non_null_mask

\* line 295: the values the date check runs on
DateCheckMask(non_null_mask, zero_mask) == non_null_mask \ zero_mask

\* lines 271-308
_validate_date_field(ser) ==
  LET text == _clean_text_series(ser)
      non_null_mask == {i \in DOMAIN text : ~text[i].na}
      zero_mask == {i \in non_null_mask : Upper(text[i].text) \in ZERO_PLACEHOLDERS}
      check_mask == DateCheckMask(non_null_mask, zero_mask)
      invalid_mask == {i \in check_mask :
                         ~IsEightDigits(text[i].text) \/ IsNaT(text[i].text)}
  IN IF is_datetime64_any_dtype(ser)
     THEN [checked |-> TRUE,
           non_null_count |-> CountOf({i \in DOMAIN ser.values : ~ser.values[i].na}),
           placeholder_zero_count |-> 0, invalid_date_count |-> 0,
           invalid_examples |-> <<>>]
     ELSE [checked |-> TRUE,
           non_null_count |-> CountOf(non_null_mask),
           placeholder_zero_count |-> CountOf(zero_mask),
           invalid_date_count |-> CountOf(invalid_mask),
           invalid_examples |-> Examples(text, invalid_mask, 5)]

\* a length check that counts a value of exactly max_length too long
TooLongAtLimit(length, max_length) == length >= max_length

\* line 386: lengths > int(max_length)
TooLong(length, max_length) == length > max_length

\* lines 363-387
_validate_char_length(ser, max_length, allow_datetime) ==
  LET text == _clean_text_series(ser)
      non_null_mask == {i \in DOMAIN text : ~text[i].na}
      lengths == [i \in non_null_mask |-> Len(text[i].text)]
  IN IF allow_datetime /\ is_datetime64_any_dtype(ser)
     THEN [checked |-> FALSE, non_null_count |-> 0, too_long_count |-> 0,
           max_observed_length |-> 0]
     ELSE [checked |-> TRUE,
           non_null_count |-> CountOf(non_null_mask),
           too_long_count |->
             CountOf({i \in non_null_mask : TooLong(lengths[i], max_length)}),
           max_observed_length |->
             IF non_null_mask = {} THEN 0
             ELSE CHOOSE n \in {lengths[i] : i \in non_null_mask} :
                    \A i \in non_null_mask : lengths[i] <= n]

\* a comparison of the value as written with the upper-cased allowed set
EnumNormalizedAsWritten(cs) == cs

\* line 403: text.str.upper()
EnumNormalized(cs) == Upper(cs)

\* lines 390-419; allowed_values is a list or set of texts
_validate_enum_field(ser, allowed_values) ==
  LET text == _clean_text_series(ser)
      normalized == [i \in DOMAIN text |->
                       IF text[i].na THEN NA ELSE Text(EnumNormalized(text[i].text))]
      non_null_mask == {i \in DOMAIN normalized : ~normalized[i].na}
      allowed_set == {Upper(value) : value \in allowed_values}
      invalid_mask == {i \in non_null_mask : normalized[i].text \notin allowed_set}
  IN IF allowed_values = {}
     THEN [checked |-> FALSE, non_null_count |-> 0, invalid_value_count |-> 0,
           invalid_examples |-> <<>>]
     ELSE [checked |-> TRUE,
           non_null_count |-> CountOf(non_null_mask),
           invalid_value_count |-> CountOf(invalid_mask),
           invalid_examples |-> Examples(normalized, invalid_mask, 8)]

\* ----------------------------------------------------------- ValidateSpec
\* the cells the validated columns are drawn from
Blank == Text(<<" ">>)
Empty == Text(<<>>)

NumericCells ==
  {NA, Empty, Blank,
   Text(<<"1","2">>), Text(<<"1","2",".","0">>), Text(<<"1",".","5">>),
   Text(<<"-","3">>), Text(<<"1","e","2">>), Text(<<" ","7"," ">>),
   Text(<<"1","2","3","4","5","6">>), Text(<<"a","b","c">>), Text(<<" ","1","2","a">>)}

DateCells ==
  {NA, Empty,
   Text(<<"2","0","2","3","0","1","0","1">>), Text(<<"0","0","0","0","0","0","0","0">>),
   Text(<<"9","9","9","9","9","9","9","9">>), Text(<<"2","0","2","3","1","3","0","1">>),
   Text(<<"2","0","2","3","0","2","2","9">>), Text(<<"2","0","2","4","0","2","2","9">>),
   Text(<<"2","0","2","3","0","4","3","1">>), Text(<<"2","0","2","3","0","1","1">>),
   Text(<<"0">>), Text(<<"0","0","0","0","-","0","0","-","0","0">>)}

\* the cells of a column pandas holds as datetime64, by their text
TimestampCells == {NA, Text(<<"2","0","2","3","-","0","1","-","0","1">>)}

CharCells ==
  {NA, Empty, Blank, Text(<<"A","B">>), Text(<<"A","B","C">>), Text(<<"A","B","C","D">>),
   Text(<<" ","A","B"," ">>)}

EnumCells ==
  {NA, Empty, Text(<<"y">>), Text(<<"N">>), Text(<<"X">>), Text(<<"x">>),
   Text(<<" ","n"," ">>), Text(<<"Y","N">>)}

AllowedPool == {{}, {<<"Y">>, <<"N">>}, {<<"y">>}}

\* the columns of the validators' documented examples, and columns with more distinct
\* invalid values than a validator lists
NumericExample ==
  <<Text(<<"1","2">>), Text(<<"1","2",".","0">>), Text(<<"a","b","c">>), Empty,
    Text(<<"1","2","3","4","5","6","7","8","9","0","1","2","3">>)>>
DateExample ==
  <<Text(<<"2","0","2","3","0","1","0","1">>), Text(<<"0","0","0","0","0","0","0","0">>),
    Text(<<"9","9","9","9","9","9","9","9">>), Text(<<"2","0","2","3","1","3","0","1">>)>>
CharExample == <<Text(<<"A","B">>), Text(<<"A","B","C","D">>), Empty>>
EnumExample == <<Text(<<"y">>), Text(<<"N">>), Text(<<"X">>)>>
ManyInvalid ==
  <<Text(<<"i">>), Text(<<"h">>), Text(<<"g">>), Text(<<"f">>), Text(<<"e">>),
    Text(<<"d">>), Text(<<"c">>), Text(<<"b">>), Text(<<"a">>), Text(<<"a">>)>>

ValidatorCall(fn, max_digits, max_length, allow_datetime, allowed_values) ==
  [fn |-> fn, max_digits |-> max_digits, max_length |-> max_length,
   allow_datetime |-> allow_datetime, allowed_values |-> allowed_values]

ObjectColumns(cells) ==
  {Series("object", values) : values \in SeqsUpTo(cells, MaxRows)}
TimestampColumns ==
  {Series("datetime64", values) : values \in SeqsUpTo(TimestampCells, MaxRows)}

ValidateInit ==
  /\ \/ /\ series \in ObjectColumns(NumericCells)
             \cup {Series("object", NumericExample), Series("object", ManyInvalid)}
        /\ v_args \in {ValidatorCall("numeric", d, 0, FALSE, {}) : d \in {2, 5}}
     \/ /\ series \in ObjectColumns(DateCells) \cup TimestampColumns
             \cup {Series("object", DateExample), Series("object", ManyInvalid)}
        /\ v_args = ValidatorCall("date", 0, 0, FALSE, {})
     \/ /\ series \in ObjectColumns(CharCells) \cup TimestampColumns
             \cup {Series("object", CharExample)}
        /\ v_args \in {ValidatorCall("char_length", 0, 3, a, {}) : a \in BOOLEAN}
     \/ /\ series \in ObjectColumns(EnumCells)
             \cup {Series("object", EnumExample), Series("object", ManyInvalid)}
        /\ v_args \in {ValidatorCall("enum", 0, 0, FALSE, a) : a \in AllowedPool}
  /\ v_result = NotYet
  /\ ParseIdle /\ CatalogIdle /\ MatchIdle /\ ReportIdle

Validated(result) ==
  /\ v_result = NotYet
  /\ v_result' = result
  /\ UNCHANGED <<series, v_args, parse_vars, catalog_vars, match_vars, report_vars>>

ValidateNumeric ==
  v_args.fn = "numeric" /\ Validated(_validate_numeric_field(series, v_args.max_digits))

ValidateDate ==
  v_args.fn = "date" /\ Validated(_validate_date_field(series))

ValidateCharLength ==
  /\ v_args.fn = "char_length"
  /\ Validated(_validate_char_length(series, v_args.max_length, v_args.allow_datetime))

ValidateEnum ==
  v_args.fn = "enum" /\ Validated(_validate_enum_field(series, v_args.allowed_values))

ValidateNext == ValidateNumeric \/ ValidateDate \/ ValidateCharLength \/ ValidateEnum

ValidateSpec == ValidateInit /\ [][ValidateNext]_vars

\* -------------------------------------------- properties of the validators
\* the column's cells, their text without its blanks (the cells drawn have blanks
\* only around their text), and the cells that are not null
NotBlank(c) == c # " "
Trimmed(cell) == SelectSeq(cell.text, NotBlank)
NonNull == {i \in DOMAIN series.values :
              ~series.values[i].na /\ Trimmed(series.values[i]) # <<>>}
HowMany(S) == Cardinality(S)
Done(fn) == v_result # NotYet /\ v_args.fn = fn

\* `examples` lists, sorted and without repeats, the least `n` of `texts`
ListsLeast(examples, texts, n) ==
  /\ Len(examples) = (IF HowMany(texts) < n THEN HowMany(texts) ELSE n)
  /\ \A i \in DOMAIN examples : examples[i] \in texts
  /\ \A i, j \in DOMAIN examples : i < j => StrLess(examples[i], examples[j])
  /\ \A t \in texts \ Range(examples) : \A i \in DOMAIN examples : StrLess(examples[i], t)

\* the numbers among the texts drawn, and those among them with a fraction
NumbersDrawn ==
  {<<"1","2">>, <<"1","2",".","0">>, <<"1",".","5">>, <<"-","3">>, <<"1","e","2">>,
   <<"7">>, <<"1","2","3","4","5","6">>,
   <<"1","2","3","4","5","6","7","8","9","0","1","2","3">>}
FractionsDrawn == {<<"1",".","5">>}

\* C12: the numeric validator counts every non-null value once, as numeric or as
\* non-numeric; counts non-integers and digit overflows among the numeric values
\* only, an overflow being more digit characters than max_digits; and lists at most
\* 5 sorted distinct values, each non-numeric or non-integer.
C12_NumericCounts ==
  Done("numeric") =>
    LET cells == series.values
        numeric == {i \in NonNull : Trimmed(cells[i]) \in NumbersDrawn}
        fraction == {i \in numeric : Trimmed(cells[i]) \in FractionsDrawn}
        digits(i) == HowMany({k \in DOMAIN cells[i].text : cells[i].text[k] \in Digits})
    IN /\ v_result.checked
       /\ v_result.non_null_count = HowMany(NonNull)
       /\ v_result.non_numeric_count = HowMany(NonNull \ numeric)
       /\ v_result.non_integer_count = HowMany(fraction)
       /\ v_result.digits_overflow_count
            = HowMany({i \in numeric : digits(i) > v_args.max_digits})
       /\ ListsLeast(v_result.invalid_examples,
                     {Trimmed(cells[i]) : i \in (NonNull \ numeric) \cup fraction}, 5)
       /\ (cells = NumericExample /\ v_args.max_digits = 5) =>
            /\ v_result.non_numeric_count = 1 /\ v_result.non_integer_count = 0
            /\ v_result.digits_overflow_count = 1
            /\ Len(cells) - v_result.non_null_count = 1

\* a column with a null, a padded number, a fraction longer than max_digits with
\* its point and a padded non-number
C12_Witness ==
  /\ Done("numeric") /\ v_args.max_digits = 2
  /\ v_result.non_null_count = 2 /\ Len(series.values) = 3
  /\ v_result.non_integer_count = 1 /\ v_result.digits_overflow_count = 0
  /\ v_result.non_numeric_count = 1
  /\ v_result.invalid_examples = << <<"1",".","5">>, <<"1","2","a">> >>

\* the dates and the zero placeholders among the texts drawn
DatesDrawn == {<<"2","0","2","3","0","1","0","1">>, <<"2","0","2","4","0","2","2","9">>}
PlaceholdersDrawn ==
  {<<"0">>, <<"0","0","0","0","0","0","0","0">>,
   <<"0","0","0","0","-","0","0","-","0","0">>}

\* C13: on a column of text the date validator makes of every non-null value
\* exactly one of placeholder, invalid and valid; a value that is no placeholder is
\* valid exactly when it is eight digits naming a date of the calendar; so
\* placeholders and invalid values together are at most the non-null values.
C13_DateCounts ==
  (Done("date") /\ series.dtype = "object") =>
    LET cells == series.values
        placeholder == {i \in NonNull : Trimmed(cells[i]) \in PlaceholdersDrawn}
        valid == {i \in NonNull : Trimmed(cells[i]) \in DatesDrawn}
        invalid == NonNull \ (placeholder \cup valid)
    IN /\ placeholder \cap valid = {}
       /\ v_result.non_null_count = HowMany(NonNull)
       /\ v_result.placeholder_zero_count = HowMany(placeholder)
       /\ v_result.invalid_date_count = HowMany(invalid)
       /\ v_result.placeholder_zero_count + v_result.invalid_date_count
            <= v_result.non_null_count
       /\ ListsLeast(v_result.invalid_examples, {Trimmed(cells[i]) : i \in invalid}, 5)
       /\ cells = DateExample =>
            /\ v_result.non_null_count = 4 /\ v_result.placeholder_zero_count = 1
            /\ v_result.invalid_date_count = 2

\* 29 February of a leap year valid, of another year invalid, beside a placeholder
C13_Witness ==
  /\ Done("date") /\ series.dtype = "object"
  /\ Range(series.values) = {Text(<<"2","0","2","3","0","2","2","9">>),
                             Text(<<"2","0","2","4","0","2","2","9">>),
                             Text(<<"0","0","0","0","-","0","0","-","0","0">>)}
  /\ v_result.non_null_count = 3 /\ v_result.placeholder_zero_count = 1
  /\ v_result.invalid_date_count = 1

\* C14: with allow_datetime set on a column of dates the length check is marked
\* not checked, all counts 0; otherwise it counts the non-null values, gives the
\* greatest trimmed length among them (0 when there are none) and counts the values
\* strictly longer than max_length.
C14_CharLengthCounts ==
  Done("char_length") =>
    LET cells == series.values
        length(i) == Len(Trimmed(cells[i]))
    IN IF v_args.allow_datetime /\ series.dtype = "datetime64"
       THEN /\ ~v_result.checked
            /\ v_result.non_null_count = 0 /\ v_result.too_long_count = 0
            /\ v_result.max_observed_length = 0
       ELSE /\ v_result.checked
            /\ v_result.non_null_count = HowMany(NonNull)
            /\ v_result.too_long_count
                 = HowMany({i \in NonNull : length(i) > v_args.max_length})
            /\ \A i \in NonNull : length(i) <= v_result.max_observed_length
            /\ IF NonNull = {} THEN v_result.max_observed_length = 0
               ELSE \E i \in NonNull : length(i) = v_result.max_observed_length
            /\ (cells = CharExample /\ v_args.max_length = 3) =>
                 /\ v_result.non_null_count = 2 /\ v_result.too_long_count = 1
                 /\ v_result.max_observed_length = 4

\* a value of exactly max_length beside a longer one and a null
C14_Witness ==
  /\ Done("char_length") /\ series.dtype = "object"
  /\ Range(series.values) = {Text(<<"A","B","C">>), Text(<<"A","B","C","D">>), Blank}
  /\ v_result.too_long_count = 1 /\ v_result.max_observed_length = 4

\* the length check skipped on a column of dates
C14_WitnessSkipped ==
  /\ Done("char_length") /\ series.dtype = "datetime64" /\ v_args.allow_datetime
  /\ ~v_result.checked /\ \E i \in DOMAIN series.values : ~series.values[i].na

\* the texts drawn that an allowed set admits
AdmittedDrawn(allowed) ==
  IF allowed = {<<"Y">>, <<"N">>} THEN {<<"y">>, <<"N">>, <<"n">>}
  ELSE IF allowed = {<<"y">>} THEN {<<"y">>}
  ELSE {}

\* C15: with an empty allowed set the enum check is marked not checked and reports
\* no invalid value; otherwise a non-null value is invalid exactly when its
\* upper-cased form is outside the upper-cased allowed set, and at most 8 sorted
\* distinct invalid values are listed.
C15_EnumCounts ==
  Done("enum") =>
    LET cells == series.values
        invalid == {i \in NonNull : Trimmed(cells[i]) \notin AdmittedDrawn(v_args.allowed_values)}
    IN IF v_args.allowed_values = {}
       THEN /\ ~v_result.checked /\ v_result.invalid_value_count = 0
            /\ v_result.invalid_examples = <<>>
       ELSE /\ v_result.checked
            /\ v_result.non_null_count = HowMany(NonNull)
            /\ v_result.invalid_value_count = HowMany(invalid)
            /\ ListsLeast(v_result.invalid_examples,
                          {Upper(Trimmed(cells[i])) : i \in invalid}, 8)
            /\ (cells = EnumExample /\ v_args.allowed_values = {<<"Y">>, <<"N">>}) =>
                 v_result.non_null_count = 3 /\ v_result.invalid_value_count = 1

\* lower-case values admitted by an upper-case allowed set, and two spellings of
\* one invalid value listed once
C15_Witness ==
  /\ Done("enum") /\ v_args.allowed_values = {<<"Y">>, <<"N">>}
  /\ series.values = <<Text(<<" ","n"," ">>), Text(<<"x">>), Text(<<"X">>)>>
  /\ v_result.invalid_value_count = 2
  /\ v_result.invalid_examples = << <<"X">> >>

\* ------------------------------------------------- collect_schema_report
\* a value that is None, and one that is set
Nothing == [kind |-> "None"]
Some(x) == [some |-> x]

ALLOWED_PIPELINE_EXTRA_COLUMNS == {"source_zip", "source_file"}
COMMON_ODI_COMPLAINT_ID_COLUMNS == <<"odi_number", "odino", "cmplid", "complaint_number">>
MODEL_YEAR_COLUMN_CANDIDATES == <<"model_year", "modelyear", "veh_year", "year">>
SCHEMA_ENUM_OVERRIDES ==
  [recalls |-> <<[key |-> "influenced_by",
                  value |-> {<<"M","F","R">>, <<"O","V","S","C">>, <<"O","D","I">>}]>>]
SCHEMA_LENGTH_OVERRIDES ==
  [recalls |-> <<[key |-> "fmvss", value |-> 6]>>]

\* the characters of a code a schema document lists
CodeTexts == {<<"Y">>, <<"N">>, <<"Y","N">>, <<"X">>}
Chars(code) == CHOOSE cs \in CodeTexts : Join(cs) = code

\* a DataFrame: its column labels in order and the Series of each, all of one length
DataFrame(labels, data) == [columns |-> labels, data |-> data]
RowCount(d) == IF d.columns = <<>> THEN 0 ELSE Len(d.data[d.columns[1]].values)
Row(d, i) == [c \in Range(d.columns) |-> d.data[c].values[i]]

\* int(x.duplicated().sum()): the entries equal to an earlier entry
DuplicatedCount(entries) ==
  Cardinality({i \in DOMAIN entries : \E j \in 1..(i - 1) : entries[j] = entries[i]})

\* [x for x in values if x in S] and [x for x in values if x not in S]
RECURSIVE Keep(_, _)
Keep(values, S) ==
  IF values = <<>> THEN <<>>
  ELSE (IF values[1] \in S THEN <<values[1]>> ELSE <<>>) \o Keep(Tail(values), S)
\* a filter that keeps what it should drop
WithoutInverted(values, S) == Keep(values, S)

RECURSIVE Without(_, _)
Without(values, S) ==
  IF values = <<>> THEN <<>>
  ELSE (IF values[1] \notin S THEN <<values[1]>> ELSE <<>>) \o Without(Tail(values), S)

\* the first of the candidates that is a column label, or None
FirstPresent(candidates, labels) ==
  LET present == Keep(candidates, Range(labels))
  IN IF present = <<>> THEN None ELSE present[1]

\* lines 422-428
_find_id_column(d) ==
  IF FirstPresent(COMMON_ODI_COMPLAINT_ID_COLUMNS, d.columns) # None
  THEN FirstPresent(COMMON_ODI_COMPLAINT_ID_COLUMNS, d.columns)
  ELSE IF "record_id" \in Range(d.columns) THEN "record_id"
  ELSE None

\* lines 431-437
_find_model_year_column(d) ==
  IF "yeartxt" \in Range(d.columns) THEN "yeartxt"
  ELSE FirstPresent(MODEL_YEAR_COLUMN_CANDIDATES, d.columns)

\* a warning or error of the report: its wording, the column or schema it names
\* and the count it gives
Msg(text, about, count) == [text |-> text, about |-> about, count |-> count]

\* lines 444-476: the report before anything is looked up
InitialReport(d, dataset_name) ==
  [kind |-> "report",
   dataset_name |-> dataset_name,
   rows |-> RowCount(d),
   columns |-> Len(d.columns),
   duplicate_rows |->
     IF RowCount(d) <= 500000
     THEN Some(DuplicatedCount([i \in 1..RowCount(d) |-> Row(d, i)]))
     ELSE Nothing,
   id_column_found |-> None,
   id_null_count |-> Nothing,
   id_duplicate_count |-> Nothing,
   model_year_column_found |-> None,
   model_year_out_of_range_count |-> Nothing,
   schema_name |-> None,
   schema_doc_path |-> None,
   schema_match_score |-> Nothing,
   expected_columns |-> Nothing,
   present_expected_columns |-> Nothing,
   missing_columns |-> <<>>,
   missing_optional_columns |-> {},
   extra_columns |-> <<>>,
   unexpected_extra_columns |-> <<>>,
   column_order_matches_expected |-> Nothing,
   field_checks |-> <<>>,
   field_issue_counts |->
     [date_invalid_total |-> 0, date_zero_placeholder_total |-> 0,
      numeric_non_numeric_total |-> 0, numeric_non_integer_total |-> 0,
      numeric_digits_overflow_total |-> 0, char_length_overflow_total |-> 0,
      enum_invalid_total |-> 0],
   warnings |-> <<>>,
   errors |-> <<>>]

\* lines 478-503: the catalog's warnings and the schema the report goes by
Resolved(rep, d, name, info) ==
  LET head == ResolveSchema(d.columns, name, info, info)
  IN [rep EXCEPT !.warnings = CatalogWarnings(info),
                 !.schema_name = head.schema_name,
                 !.schema_match_score = head.schema_match_score]

\* lines 505-557: the columns of the dataset against those of the schema.
\* missing_optional_columns is a set here: the order of sorted names is not modelled.
ColumnChecks(rep, d, schema_spec) ==
  LET labels == Range(d.columns)
      expected_columns == schema_spec.expected_columns
      expected_set == Range(expected_columns)
      present_expected == Keep(expected_columns, labels)
      missing_required == Without(schema_spec.required_columns, labels)
      missing_optional == schema_spec.optional_columns \ labels
      extra_columns == Without(d.columns, expected_set)
      unexpected_extra_columns == Without(extra_columns, ALLOWED_PIPELINE_EXTRA_COLUMNS)
      actual_expected_order == Keep(d.columns, expected_set)
      order_matches == actual_expected_order = present_expected
  IN [rep EXCEPT
        !.schema_doc_path = schema_spec.doc_path,
        !.expected_columns = Some(Len(expected_columns)),
        !.present_expected_columns = Some(Len(present_expected)),
        !.missing_columns = missing_required,
        !.missing_optional_columns = missing_optional,
        !.extra_columns = extra_columns,
        !.unexpected_extra_columns = unexpected_extra_columns,
        !.column_order_matches_expected = Some(order_matches),
        !.errors = @ \o (IF missing_required # <<>>
                         THEN <<Msg("Missing required columns for", rep.schema_name,
                                    Len(missing_required))>>
                         ELSE <<>>),
        !.warnings = @ \o (IF unexpected_extra_columns # <<>>
                           THEN <<Msg("Unexpected extra columns", None,
                                      Len(unexpected_extra_columns))>>
                           ELSE <<>>)
                       \o (IF ~order_matches
                           THEN <<Msg("column order differs from schema doc", None, 0)>>
                           ELSE <<>>)]

\* allowed values that look at the y/n mention before the override
AllowedValuesYesNoFirst(name, field) ==
  LET overrides == IF name \in DOMAIN SCHEMA_ENUM_OVERRIDES
                   THEN SCHEMA_ENUM_OVERRIDES[name] ELSE <<>>
  IN IF field.is_yes_no THEN {<<"Y">>, <<"N">>}
     ELSE IF field.name \in Keys(overrides) /\ Get(overrides, field.name) # {}
     THEN Get(overrides, field.name)
     ELSE {Chars(c) : c \in field.allowed_codes}

\* lines 253-268: the codes a CHAR column may hold, as texts; none when nothing is known
_allowed_values_for_field(name, field) ==
  LET overrides == IF name \in DOMAIN SCHEMA_ENUM_OVERRIDES
                   THEN SCHEMA_ENUM_OVERRIDES[name] ELSE <<>>
  IN IF field.name \in Keys(overrides) /\ Get(overrides, field.name) # {}
     THEN Get(overrides, field.name)
     ELSE IF field.is_yes_no THEN {<<"Y">>, <<"N">>}
     ELSE {Chars(c) : c \in field.allowed_codes}

\* one more message when the count is positive
Counted(count, text, about) == IF count > 0 THEN <<Msg(text, about, count)>> ELSE <<>>

\* the report and the column_report of the column at hand (line 564)
FieldStart(rep, field) ==
  [report |-> rep,
   column_report |-> [type |-> field.type, size |-> field.size, numeric |-> Nothing,
                      date |-> Nothing, char_length |-> Nothing, enum |-> Nothing]]

\* lines 569-591: what a numeric_report adds
NumericCounted(st, numeric_report, column_name) ==
  [column_report |-> [st.column_report EXCEPT !.numeric = numeric_report],
   report |->
     [st.report EXCEPT
        !.field_issue_counts.numeric_non_numeric_total =
           @ + numeric_report.non_numeric_count,
        !.field_issue_counts.numeric_non_integer_total =
           @ + numeric_report.non_integer_count,
        !.field_issue_counts.numeric_digits_overflow_total =
           @ + numeric_report.digits_overflow_count,
        !.errors = @ \o Counted(numeric_report.non_numeric_count,
                                "non-numeric values", column_name),
        !.warnings = @ \o Counted(numeric_report.non_integer_count,
                                  "non-integer numeric values", column_name)
                       \o Counted(numeric_report.digits_overflow_count,
                                  "values exceed NUMBER digit length", column_name)]]

\* lines 567-591: a NUMBER column
NumericPart(st, ser, field, column_name) ==
  IF field.type # "NUMBER" THEN st
  ELSE NumericCounted(st, _validate_numeric_field(ser, field.size), column_name)

\* lines 595-610: what a date_report adds
DateCounted(st, date_report, column_name) ==
  [column_report |-> [st.column_report EXCEPT !.date = date_report],
   report |->
     [st.report EXCEPT
        !.field_issue_counts.date_invalid_total = @ + date_report.invalid_date_count,
        !.field_issue_counts.date_zero_placeholder_total =
           @ + date_report.placeholder_zero_count,
        !.errors = @ \o Counted(date_report.invalid_date_count,
                                "invalid YYYYMMDD date values", column_name),
        !.warnings = @ \o Counted(date_report.placeholder_zero_count,
                                  "placeholder zero date values", column_name)]]

\* lines 593-610: a date column
DatePart(st, ser, field, column_name) ==
  IF ~field.is_date THEN st
  ELSE DateCounted(st, _validate_date_field(ser), column_name)

\* a maximum that knows no override
AllowedMaxLengthDocumented(detected_schema_name, field, column_name) == field.size

\* lines 613-615: schema_length_overrides.get(column_name, field["size"])
AllowedMaxLength(detected_schema_name, field, column_name) ==
  IF /\ detected_schema_name \in DOMAIN SCHEMA_LENGTH_OVERRIDES
     /\ column_name \in Keys(SCHEMA_LENGTH_OVERRIDES[detected_schema_name])
  THEN Get(SCHEMA_LENGTH_OVERRIDES[detected_schema_name], column_name)
  ELSE field.size

\* lines 621-646: what a char_report and an enum_report add; a length beyond a legacy
\* maximum warns, one beyond the documented size is an error
CharCounted(st, char_report, enum_report, legacy, column_name) ==
  [column_report |-> [st.column_report EXCEPT !.char_length = char_report,
                                              !.enum = enum_report],
   report |->
     [st.report EXCEPT
        !.field_issue_counts.char_length_overflow_total = @ + char_report.too_long_count,
        !.field_issue_counts.enum_invalid_total = @ + enum_report.invalid_value_count,
        !.errors = @ \o (IF legacy THEN <<>>
                         ELSE Counted(char_report.too_long_count,
                                      "values exceed CHAR", column_name)),
        !.warnings = @ \o (IF legacy
                           THEN Counted(char_report.too_long_count,
                                        "values exceed doc CHAR length (allowed legacy max)",
                                        column_name)
                           ELSE <<>>)
                       \o Counted(enum_report.invalid_value_count,
                                  "values outside documented codes", column_name)]]

\* lines 612-646: a CHAR column, its length against the documented or the legacy
\* size and its values against the documented codes
CharPart(st, ser, field, column_name, detected_schema_name) ==
  IF field.type # "CHAR" THEN st
  ELSE CharCounted(
         st,
         _validate_char_length(ser, AllowedMaxLength(detected_schema_name, field, column_name),
                               field.is_date),
         _validate_enum_field(ser, _allowed_values_for_field(detected_schema_name, field)),
         AllowedMaxLength(detected_schema_name, field, column_name) # field.size,
         column_name)

\* line 648
FieldStored(st, column_name) ==
  [st.report EXCEPT !.field_checks = Put(@, column_name, st.column_report)]

\* lines 563-648: one turn of the loop over present_expected, for a column the
\* field_map has
FieldChecked(rep, ser, field, column_name) ==
  FieldStored(
    CharPart(DatePart(NumericPart(FieldStart(rep, field), ser, field, column_name),
                      ser, field, column_name),
             ser, field, column_name, rep.schema_name),
    column_name)

FieldCheck(rep, d, schema_spec, column_name) ==
  FieldChecked(rep, d.data[column_name], schema_spec.field_map[column_name], column_name)

\* lines 650-658
NoSchemaBranch(rep, catalog) ==
  [rep EXCEPT !.warnings = @ \o NoSchemaWarnings(rep.schema_name, catalog)]

\* int(ser.isna().sum())
NullCount(ser) == Cardinality({i \in DOMAIN ser.values : ser.values[i].na})

\* lines 660-665
IdDiagnostics(rep, d) ==
  LET id_column == _find_id_column(d)
  IN IF id_column = None THEN rep
     ELSE [rep EXCEPT
             !.id_column_found = id_column,
             !.id_null_count = Some(NullCount(d.data[id_column])),
             !.id_duplicate_count =
                IF RowCount(d) <= 1000000
                THEN Some(DuplicatedCount(d.data[id_column].values))
                ELSE Nothing]

\* a range that leaves out its two ends
InYearRangeExclusive(x) ==
  LET v == NumValue(x)
  IN \/ v.num = 9999 * v.den
     \/ 1900 * v.den < v.num /\ v.num < 2100 * v.den

\* values.eq(9999) | values.between(1900, 2100) of a number
InYearRange(x) ==
  LET v == NumValue(x)
  IN \/ v.num = 9999 * v.den
     \/ 1900 * v.den <= v.num /\ v.num <= 2100 * v.den

\* line 671: the positions whose value is a number outside the range
OutOfRange(values) == {i \in DOMAIN values : ~values[i].nan /\ ~InYearRange(values[i])}

\* lines 667-676
ModelYearDiagnostics(rep, d) ==
  LET model_year_column == _find_model_year_column(d)
  IN IF model_year_column = None THEN rep
     ELSE
       LET ser == d.data[model_year_column]
           values == [i \in DOMAIN ser.values |-> to_numeric(ser.values[i])]
           count == CountOf(OutOfRange(values))
       IN [rep EXCEPT
             !.model_year_column_found = model_year_column,
             !.model_year_out_of_range_count = Some(count),
             !.warnings = @ \o Counted(count, "values outside expected range (1900-2100 or 9999)",
                                       model_year_column)]

\* lines 562-648: the loop over present_expected
RECURSIVE FieldLoop(_, _, _, _)
FieldLoop(rep, d, schema_spec, todo) ==
  IF todo = <<>> THEN rep
  ELSE FieldLoop(FieldCheck(rep, d, schema_spec, todo[1]), d, schema_spec, Tail(todo))

\* lines 504-658: the branch the resolved schema decides
SchemaBranch(start, d, schema_spec, catalog) ==
  IF schema_spec # NoSchema
  THEN FieldLoop(ColumnChecks(start, d, schema_spec), d, schema_spec,
                 Keep(schema_spec.expected_columns, Range(d.columns)))
  ELSE NoSchemaBranch(start, catalog)

\* lines 503-658
Checked(start, d, catalog) ==
  SchemaBranch(start, d, SchemaSpecOf(start.schema_name, catalog), catalog)

\* lines 443-678: the report of a call that returns
collect_schema_report(d, dataset_name, name, info) ==
  ModelYearDiagnostics(
    IdDiagnostics(
      Checked(Resolved(InitialReport(d, dataset_name), d, name, info), d, info.schemas),
      d),
    d)

\* ------------------------------------------------------------ ReportSpec
(* collect_schema_report on a drawn dataset, catalog and schema_name argument,  *)
(* one step for each stretch of the function.                                    *)
YEARTXT == <<"Y","E","A","R","T","X","T">>
FMVSS == <<"F","M","V","S","S">>
LRowYear == <<TInt(3), TId(YEARTXT), TType("NUMBER", 4)>>
LRowFmvss == <<TInt(4), TId(FMVSS), TType("CHAR", 3)>>

\* a row whose type token is neither CHAR nor NUMBER
LRowId == <<TInt(1), TId(CMPLID), TType("VARCHAR", 9)>>

DocYear == Document(<<LMarker, LRowDrive, LRowDate, LRowYear>>)

\* a CHAR row that lists a code in brackets and mentions y/n
INFLUENCED_BY == <<"I","N","F","L","U","E","N","C","E","D","_","B","Y">>
LRowInfluenced == <<TInt(5), TId(INFLUENCED_BY), TType("CHAR", 4),
                    TBracket(<< <<"X">> >>), TWord("y/n")>>
DocOther == Document(<<LMarker, LRowId, LRowDate, LRowInfluenced>>)

\* a recalls document that declares FMVSS with the size of its legacy override
LRowFmvss6 == <<TInt(4), TId(FMVSS), TType("CHAR", 6)>>
DocLegacy == Document(<<LMarker, LRowFmvss6, LRowInfluenced>>)
DocRecall == Document(<<LMarker, LRowDate, LRowPark, LRowFmvss>>)

\* the documents of complaints and of recalls the catalog was built from
ReportDisks ==
  {<<DocYear, DocRecall>>, <<DocFull, DocNoRows>>, <<DocTwice, DocThree>>,
   <<Absent, Absent>>, <<DocOther, DocLegacy>>}
ReportCatalogs ==
  {BuildCatalog(EmptyCatalogInfo, SchemaNames,
                [complaints |-> docs[1], recalls |-> docs[2]]) : docs \in ReportDisks}

\* schema_name arguments: none, the configured names, a name never configured and
\* the empty name
ReportNames == {None, "complaints", "recalls", Unconfigured, ""}

ReportColPool ==
  {"datea", "do_not_drive", "yeartxt", "cmplid", "fmvss", "source_zip", "influenced_by"}

\* the values of a column in the drawn dataset, by the dataset's variant
ColumnData ==
  [datea |->
     <<Series("object", <<Text(<<"2","0","2","3","0","1","0","1">>),
                          Text(<<"2","0","2","3","0","2","3","0">>), Text(<<"0">>)>>),
       Series("datetime64", <<Text(<<"2","0","2","3","-","0","1","-","0","1">>), NA,
                              Text(<<"2","0","2","3","-","0","1","-","0","1">>)>>),
       Series("object", <<NA, Blank, Text(<<"2","0","2","4","0","2","2","9">>)>>)>>,
   do_not_drive |->
     <<Series("object", <<Text(<<"y">>), Text(<<"N">>), Text(<<"X">>)>>),
       Series("object", <<Text(<<"Y">>), Text(<<"Y">>), Text(<<"Y","N">>)>>),
       Series("object", <<NA, Text(<<" ","n"," ">>), Blank>>)>>,
   yeartxt |->
     <<Series("object", <<Text(<<"2","0","2","0">>), Text(<<"1","8","9","9">>),
                          Text(<<"a","b","c">>)>>),
       Series("object", <<Text(<<"9","9","9","9">>), Text(<<"1","9","0","0">>),
                          Text(<<"2","1","0","0">>)>>),
       Series("object", <<NA, Text(<<"2","1","0","1">>), Blank>>)>>,
   cmplid |->
     <<Series("object", <<Text(<<"1">>), Text(<<"2">>), Text(<<"3">>)>>),
       Series("object", <<Text(<<"1">>), Text(<<"1">>), NA>>),
       Series("object", <<NA, NA, Text(<<"7">>)>>)>>,
   fmvss |->
     <<Series("object", <<Text(<<"1">>), Text(<<"1","2","3","4","5">>),
                          Text(<<"1","2","3","4","5","6","7">>)>>),
       Series("object", <<Text(<<"1","2","3">>), Text(<<"1","2","3">>), NA>>),
       Series("object", <<Text(<<"1","2","3","4">>), Blank, Text(<<"1">>)>>)>>,
   source_zip |->
     <<Series("object", <<Text(<<"z">>), Text(<<"z">>), Text(<<"z">>)>>),
       Series("object", <<Text(<<"z">>), Text(<<"z">>), Text(<<"z">>)>>),
       Series("object", <<Text(<<"z">>), Text(<<"y">>), Text(<<"z">>)>>)>>,
   influenced_by |->
     <<Series("object", <<Text(<<"M","F","R">>), Text(<<"Y">>), Text(<<"X">>)>>),
       Series("object", <<Text(<<"o","d","i">>), Text(<<" ","n">>), NA>>),
       Series("object", <<Text(<<"O","V","S","C">>), Text(<<"O","D","I">>), Blank>>)>>]

\* variant 0 is the dataset without rows
Variants == 0..3
DatasetOf(labels, variant) ==
  DataFrame(labels,
            [c \in Range(labels) |->
               IF variant = 0 THEN Series("object", <<>>) ELSE ColumnData[c][variant]])

\* column labels are distinct: a dataset maps each label to one column
DistinctSeqs(S, n) ==
  {labels \in SeqsUpTo(S, n) : Cardinality(Range(labels)) = Len(labels)}
DatasetPool ==
  {DatasetOf(labels, variant) : labels \in DistinctSeqs(ReportColPool, MaxCols),
                                variant \in Variants}

ReportInit ==
  /\ ParseIdle /\ CatalogIdle /\ MatchIdle /\ ValidateIdle
  /\ df \in DatasetPool
  /\ r_info \in ReportCatalogs
  /\ r_name \in ReportNames
  /\ r_pc = "start"
  /\ r_spec = NotYet
  /\ r_todo = <<>>
  /\ report = NotYet
  /\ printed = NotYet

ReportUnchanged == UNCHANGED <<parse_vars, catalog_vars, match_vars, validate_vars,
                               df, r_info, r_name, printed>>

\* lines 444-503
ReportStart ==
  /\ r_pc = "start"
  /\ report' = Resolved(InitialReport(df, "dataset"), df, r_name, r_info)
  /\ r_spec' = SchemaSpecOf(report'.schema_name, r_info.schemas)
  /\ r_pc' = IF r_spec' # NoSchema THEN "columns" ELSE "no_schema"
  /\ UNCHANGED r_todo
  /\ ReportUnchanged

\* lines 505-560
ReportColumns ==
  /\ r_pc = "columns"
  /\ report' = ColumnChecks(report, df, r_spec)
  /\ r_todo' = Keep(r_spec.expected_columns, Range(df.columns))
  /\ r_pc' = IF r_todo' = <<>> THEN "id" ELSE "fields"
  /\ UNCHANGED r_spec
  /\ ReportUnchanged

\* lines 562-648, one column of present_expected; field_map[column_name] raises
\* KeyError for a name the map lacks
ReportField ==
  /\ r_pc = "fields"
  /\ IF r_todo[1] \in DOMAIN r_spec.field_map
     THEN /\ report' = FieldCheck(report, df, r_spec, r_todo[1])
          /\ r_todo' = Tail(r_todo)
          /\ r_pc' = IF r_todo' = <<>> THEN "id" ELSE "fields"
     ELSE /\ report' = Raise("KeyError", "", r_todo[1])
          /\ r_pc' = "raised"
          /\ UNCHANGED r_todo
  /\ UNCHANGED r_spec
  /\ ReportUnchanged

\* lines 650-658
ReportNoSchema ==
  /\ r_pc = "no_schema"
  /\ report' = NoSchemaBranch(report, r_info.schemas)
  /\ r_pc' = "id"
  /\ UNCHANGED <<r_spec, r_todo>>
  /\ ReportUnchanged

\* lines 660-665
ReportId ==
  /\ r_pc = "id"
  /\ report' = IdDiagnostics(report, df)
  /\ r_pc' = "model_year"
  /\ UNCHANGED <<r_spec, r_todo>>
  /\ ReportUnchanged

\* lines 667-678
ReportModelYear ==
  /\ r_pc = "model_year"
  /\ report' = ModelYearDiagnostics(report, df)
  /\ r_pc' = "done"
  /\ UNCHANGED <<r_spec, r_todo>>
  /\ ReportUnchanged

ReportNext ==
  \/ ReportStart \/ ReportColumns \/ ReportField \/ ReportNoSchema
  \/ ReportId \/ ReportModelYear

ReportSpec == ReportInit /\ [][ReportNext]_vars

\* ------------------------------------------------------ print_schema_report
\* a printed line: what it is about and the values it gives
Line(label, values) == [label |-> label, values |-> values]

\* lines 53-59: the first max_items values and how many more there are
_preview_list(values) ==
  [shown |-> FirstN(values, 8), more |-> IF Len(values) > 8 THEN Len(values) - 8 ELSE 0]

\* examples printed without a cap
ExampleLinesUncapped(header, messages) ==
  IF messages = <<>> THEN <<>>
  ELSE <<Line(header, <<>>)>> \o [i \in DOMAIN messages |-> Line("-", <<messages[i]>>)]

\* lines 762-775: the first five messages of a list and the number of the others
ExampleLines(header, messages) ==
  IF messages = <<>> THEN <<>>
  ELSE <<Line(header, <<>>)>>
       \o [i \in DOMAIN FirstN(messages, 5) |-> Line("-", <<messages[i]>>)]
       \o (IF Len(messages) > 5 THEN <<Line("... more", <<Len(messages) - 5>>)>> ELSE <<>>)

\* lines 685-694
SchemaLine(rep) ==
  IF Truthy(rep.schema_name)
  THEN Line("schema", <<rep.schema_name, rep.schema_match_score>>)
  ELSE Line("schema", <<"unknown">>)

\* lines 699-727: the lines of a report that has expected columns.  The optional
\* columns are printed as the set they are carried as.
ColumnLines(rep) ==
  IF rep.expected_columns = Nothing THEN <<>>
  ELSE <<Line("expected_columns",
              <<rep.present_expected_columns.some, rep.expected_columns.some>>)>>
       \o (IF rep.missing_columns # <<>>
           THEN <<Line("missing_required",
                       <<Len(rep.missing_columns), _preview_list(rep.missing_columns)>>)>>
           ELSE <<Line("missing_required", <<0>>)>>)
       \o (IF rep.missing_optional_columns # {}
           THEN <<Line("missing_optional",
                       <<Cardinality(rep.missing_optional_columns),
                         rep.missing_optional_columns>>)>>
           ELSE <<>>)
       \o (IF rep.unexpected_extra_columns # <<>>
           THEN <<Line("unexpected_extra",
                       <<Len(rep.unexpected_extra_columns),
                         _preview_list(rep.unexpected_extra_columns)>>)>>
           ELSE <<>>)
       \o (IF rep.column_order_matches_expected # Nothing
           THEN <<Line("column_order_matches_expected",
                       <<rep.column_order_matches_expected.some>>)>>
           ELSE <<>>)

\* lines 729-750
DiagnosticLines(rep) ==
  <<IF rep.duplicate_rows = Nothing THEN Line("duplicate_rows", <<"skipped">>)
    ELSE Line("duplicate_rows", <<rep.duplicate_rows.some>>),
    IF rep.id_column_found = None THEN Line("id_column", <<"not found">>)
    ELSE IF rep.id_duplicate_count # Nothing
    THEN Line("id_column", <<rep.id_column_found, rep.id_null_count.some,
                             rep.id_duplicate_count.some>>)
    ELSE Line("id_column", <<rep.id_column_found, rep.id_null_count.some>>),
    IF rep.model_year_out_of_range_count = Nothing
    THEN Line("model_year_range_check", <<"skipped">>)
    ELSE Line("out_of_range_count",
              <<rep.model_year_column_found, rep.model_year_out_of_range_count.some>>)>>

\* lines 752-762: five of the totals, then the numbers of warnings and errors
CountLines(rep) ==
  <<Line("field_issue_totals",
         <<[name |-> "date_invalid", count |-> rep.field_issue_counts.date_invalid_total],
           [name |-> "date_zero",
            count |-> rep.field_issue_counts.date_zero_placeholder_total],
           [name |-> "non_numeric",
            count |-> rep.field_issue_counts.numeric_non_numeric_total],
           [name |-> "length_overflow",
            count |-> rep.field_issue_counts.char_length_overflow_total],
           [name |-> "enum_invalid", count |-> rep.field_issue_counts.enum_invalid_total]>>),
    Line("warnings", <<Len(rep.warnings)>>),
    Line("errors", <<Len(rep.errors)>>)>>

\* lines 681-775: the lines written, after the empty line that comes first
print_schema_report(rep) ==
  <<Line("[schema]", <<rep.dataset_name>>), SchemaLine(rep),
    Line("rows", <<rep.rows>>), Line("columns", <<rep.columns>>)>>
  \o ColumnLines(rep)
  \o DiagnosticLines(rep)
  \o CountLines(rep)
  \o ExampleLines("error_examples", rep.errors)
  \o ExampleLines("warning_examples", rep.warnings)

\* ------------------------------------------------------------- RenderSpec
(* print_schema_report on reports collect_schema_report returns, and on the same  *)
(* reports with further messages in their lists, as datasets of more columns give. *)
RenderDatasets ==
  {DatasetOf(labels, variant) :
     labels \in {<<>>, <<"datea", "source_zip", "cmplid">>,
                 <<"fmvss", "yeartxt", "do_not_drive">>},
     variant \in {0, 1}}

FurtherMessages(n) == [i \in 1..n |-> Msg("non-numeric values", "further", i)]

RenderReports ==
  {[rep EXCEPT !.errors = @ \o FurtherMessages(e), !.warnings = @ \o FurtherMessages(w)] :
     rep \in {collect_schema_report(d, "dataset", name, info) :
                d \in RenderDatasets, name \in {None, "recalls", ""},
                info \in ReportCatalogs},
     e \in 0..MaxMessages, w \in 0..MaxMessages}

RenderInit ==
  /\ ParseIdle /\ CatalogIdle /\ MatchIdle /\ ValidateIdle
  /\ df = NotYet /\ r_info = NotYet /\ r_name = None /\ r_pc = "idle"
  /\ r_spec = NotYet /\ r_todo = <<>>
  /\ report \in RenderReports
  /\ printed = NotYet

\* lines 681-775
Render ==
  /\ printed = NotYet
  /\ printed' = print_schema_report(report)
  /\ UNCHANGED <<parse_vars, catalog_vars, match_vars, validate_vars,
                 df, r_info, r_name, r_pc, r_spec, r_todo, report>>

RenderNext == Render

RenderSpec == RenderInit /\ [][RenderNext]_vars

\* ------------------------------------------------- properties: the report
Says(messages, text) == {m \in Range(messages) : m.text = text}
Returned == r_pc = "done"

\* C16: collect_schema_report never aborts.  For every dataset and every schema_name
\* argument (none, a parsed schema, a configured schema whose document failed, a name
\* never configured) no step raises, every position short of the return is one a
\* step leaves, and what returns is a report; catalog parse failures, missing and unexpected
\* columns and field-level anomalies are entries of its warnings or errors.
C16_NeverAborts ==
  /\ r_pc # "raised"
  /\ r_pc \in {"start", "columns", "fields", "no_schema", "id", "model_year", "done"}
  /\ r_pc = "fields" => r_todo # <<>>
  /\ Returned =>
       /\ report.kind = "report"
       /\ \A failed \in Keys(r_info.errors) :
            \E w \in Says(report.warnings, "Could not parse schema doc for") :
              w.about = failed
       /\ report.missing_columns # <<>> =>
            Says(report.errors, "Missing required columns for") # {}
       /\ report.unexpected_extra_columns # <<>> =>
            Says(report.warnings, "Unexpected extra columns") # {}
       /\ report.field_issue_counts.numeric_non_numeric_total > 0 =>
            Says(report.errors, "non-numeric values") # {}
       /\ report.field_issue_counts.date_invalid_total > 0 =>
            Says(report.errors, "invalid YYYYMMDD date values") # {}
       /\ report.field_issue_counts.date_zero_placeholder_total > 0 =>
            Says(report.warnings, "placeholder zero date values") # {}
       /\ report.field_issue_counts.enum_invalid_total > 0 =>
            Says(report.warnings, "values outside documented codes") # {}
       /\ report.field_issue_counts.char_length_overflow_total > 0 =>
            \/ Says(report.errors, "values exceed CHAR") # {}
            \/ Says(report.warnings,
                    "values exceed doc CHAR length (allowed legacy max)") # {}

\* a report returned for a dataset with an invalid date and a missing required
\* column, from a catalog one of whose documents failed to parse
C16_Witness ==
  /\ Returned
  /\ Keys(r_info.errors) # {}
  /\ report.missing_columns # <<>>
  /\ report.field_issue_counts.date_invalid_total > 0

\* ... and one returned for a schema_name naming the document that failed
C16_WitnessFailedName ==
  /\ Returned
  /\ r_name \in Keys(r_info.errors)
  /\ report.rows > 0

\* the schema-independent diagnostics of a report
Structural(rep) ==
  <<rep.rows, rep.columns, rep.duplicate_rows, rep.id_column_found, rep.id_null_count,
    rep.id_duplicate_count, rep.model_year_column_found,
    rep.model_year_out_of_range_count>>

\* the catalogs in which a schema parsed, with the names of their schemas
MatchedCalls ==
  {[info |-> info, name |-> name] : info \in ReportCatalogs, name \in Configured} \cap
  {c \in [info : ReportCatalogs, name : Configured] : c.name \in Keys(c.info.schemas)}

MatchWarnings(rep) ==
  Says(rep.warnings, "Schema requested but not available")
  \cup Says(rep.warnings, "Could not confidently match dataset columns")

\* C17: whenever collect_schema_report resolves no schema (auto-detection rejected, or
\* the explicit name unconfigured, failed to parse or otherwise unusable), the report
\* carries the same row count, column count, duplicate-row, id-column and model-year
\* diagnostics as the report of the dataset under a matched schema, and its warnings
\* hold a warning about the failed or absent match.
C17_NoSchemaKeepsDiagnosticsAndWarns ==
  Returned /\ r_spec = NoSchema =>
    /\ \A c \in MatchedCalls :
         Structural(report) = Structural(collect_schema_report(df, "dataset", c.name, c.info))
    /\ MatchWarnings(report) # {}

\* the model-year column of the dataset, its cells and the texts drawn for it:
\* years that are valid, numbers that are not, and text that is no number
YearFound == Returned /\ report.model_year_column_found # None
YearCells == df.data[report.model_year_column_found].values
ValidYearsDrawn ==
  {<<"2","0","2","0">>, <<"9","9","9","9">>, <<"1","9","0","0">>, <<"2","1","0","0">>}
InvalidYearsDrawn == {<<"1","8","9","9">>, <<"2","1","0","1">>}
Present(cell) == ~cell.na /\ Trimmed(cell) # <<>>
YearWarnings(messages) ==
  Says(messages, "values outside expected range (1900-2100 or 9999)")

\* C18 as claimed: when a model-year column is found, model_year_out_of_range_count
\* is the number of its non-missing values that are not valid, a value being valid
\* iff it is numeric and equals 9999 or lies in [1900, 2100]; a positive count adds
\* a warning and never an error.
C18_CountsEveryInvalidValue ==
  YearFound =>
    /\ report.model_year_out_of_range_count =
         Some(HowMany({i \in DOMAIN YearCells :
                         Present(YearCells[i]) /\ Trimmed(YearCells[i]) \notin ValidYearsDrawn}))
    /\ YearWarnings(report.errors) = {}
    /\ report.model_year_out_of_range_count # Some(0) => YearWarnings(report.warnings) # {}

\* C18 amended: when a model-year column is found, model_year_out_of_range_count is the
\* number of its values that are numeric and neither equal 9999 nor lie in
\* [1900, 2100]; a value that is not numeric is left out of the count like a missing
\* one.  A positive count adds one warning naming the column and the count, a zero
\* count adds none, and no error is added.
C18_CountsNumericOutOfRange ==
  YearFound =>
    /\ report.model_year_out_of_range_count =
         Some(HowMany({i \in DOMAIN YearCells :
                         Present(YearCells[i]) /\ Trimmed(YearCells[i]) \in InvalidYearsDrawn}))
    /\ YearWarnings(report.errors) = {}
    /\ YearWarnings(report.warnings) =
         IF report.model_year_out_of_range_count = Some(0) THEN {}
         ELSE {Msg("values outside expected range (1900-2100 or 9999)",
                   report.model_year_column_found,
                   report.model_year_out_of_range_count.some)}

\* a model-year column holding a valid year, a number out of range and a text that
\* is no number: the count is 1
C18_Witness ==
  /\ YearFound
  /\ report.model_year_out_of_range_count = Some(1)
  /\ \E i \in DOMAIN YearCells : Trimmed(YearCells[i]) = <<"a","b","c">>
  /\ \E i \in DOMAIN YearCells : Trimmed(YearCells[i]) \in ValidYearsDrawn

\* the call resolved a schema and returned
WithSchema == Returned /\ r_spec # NoSchema
Labels == Range(df.columns)
ExactlyOne(a, b, c) == (a /\ ~b /\ ~c) \/ (~a /\ b /\ ~c) \/ (~a /\ ~b /\ c)

\* C19: when a schema is resolved, missing_columns is the required columns not
\* present, missing_optional_columns the optional columns not present, extra_columns
\* the present columns outside the expected set, unexpected_extra_columns the extra
\* columns outside {source_zip, source_file}; every dataset column is exactly one of
\* present-expected, allow-listed extra or unexpected extra, and every expected column
\* exactly one of present, missing required or missing optional.
C19_ColumnListsPartition ==
  WithSchema =>
    LET Absent_(c) == c \notin Labels
        NotExpected(c) == c \notin Range(r_spec.expected_columns)
        NotAllowListed(c) == c \notin {"source_zip", "source_file"}
        missing == Range(report.missing_columns)
        missing_optional == report.missing_optional_columns
        extra == Range(report.extra_columns)
        unexpected == Range(report.unexpected_extra_columns)
    IN /\ report.missing_columns = SelectSeq(r_spec.required_columns, Absent_)
       /\ missing_optional = {c \in r_spec.optional_columns : Absent_(c)}
       /\ report.extra_columns = SelectSeq(df.columns, NotExpected)
       /\ report.unexpected_extra_columns = SelectSeq(report.extra_columns, NotAllowListed)
       /\ \A c \in Labels :
            ExactlyOne(c \in Range(r_spec.expected_columns),
                       c \in extra /\ ~NotAllowListed(c),
                       c \in unexpected)
       /\ \A c \in Range(r_spec.expected_columns) :
            ExactlyOne(c \in Labels, c \in missing, c \in missing_optional)

\* a dataset with a present expected column, an allow-listed and an unexpected extra
\* column, under a schema of which a required and an optional column are missing
C19_Witness ==
  /\ WithSchema
  /\ report.present_expected_columns = Some(1)
  /\ "source_zip" \in Range(report.extra_columns)
  /\ report.unexpected_extra_columns # <<>>
  /\ report.missing_columns # <<>>
  /\ report.missing_optional_columns \cap Range(r_spec.expected_columns) # {}

\* the first place of a name in a list
Place(values, x) == CHOOSE i \in DOMAIN values : values[i] = x /\ \A j \in 1..(i - 1) : values[j] # x

\* the expected columns the dataset has stand in the dataset in the order in which
\* the schema declares them
SameRelativeOrder ==
  \A i, j \in DOMAIN df.columns :
    (/\ i < j
     /\ df.columns[i] \in Range(r_spec.expected_columns)
     /\ df.columns[j] \in Range(r_spec.expected_columns))
    => Place(r_spec.expected_columns, df.columns[i])
         < Place(r_spec.expected_columns, df.columns[j])

\* C20: a dataset whose columns are a schema's exact expected columns, in declared
\* order, plus source_zip has missing_columns = [], unexpected_extra_columns = [] and
\* column_order_matches_expected = true; in general column_order_matches_expected is
\* true exactly when the present expected columns stand in the dataset in the same
\* relative order as the schema declares them.
C20_OrderMatchesIffSameRelativeOrder ==
  WithSchema =>
    /\ df.columns = r_spec.expected_columns \o <<"source_zip">> =>
         /\ report.missing_columns = <<>>
         /\ report.unexpected_extra_columns = <<>>
         /\ report.column_order_matches_expected = Some(TRUE)
    /\ report.column_order_matches_expected = Some(SameRelativeOrder)

\* the field and the column_report of an expected column the dataset has
PresentExpected == Range(r_spec.expected_columns) \cap Labels
FieldOf(c) == r_spec.field_map[c]
ChecksOf(c) == Get(report.field_checks, c)

\* C21: every expected column present in the dataset has one or more validator results
\* in field_checks, chosen by the field's declaration: the numeric result for a NUMBER
\* field, the date result when is_date, the length and enum results for a CHAR field;
\* no present expected column is left without a validator result, whatever type token
\* its field row declared.
C21_EveryPresentColumnValidated ==
  WithSchema =>
    \A c \in PresentExpected :
      /\ c \in Keys(report.field_checks)
      /\ FieldOf(c).type = "NUMBER" <=> ChecksOf(c).numeric # Nothing
      /\ FieldOf(c).is_date <=> ChecksOf(c).date # Nothing
      /\ FieldOf(c).type = "CHAR" <=> ChecksOf(c).char_length # Nothing
      /\ FieldOf(c).type = "CHAR" <=> ChecksOf(c).enum # Nothing
      /\ \/ ChecksOf(c).numeric # Nothing \/ ChecksOf(c).date # Nothing
         \/ ChecksOf(c).char_length # Nothing \/ ChecksOf(c).enum # Nothing

\* the columns of field_checks, and those whose lengths overflow
CheckedColumns == Keys(report.field_checks)
Overflows(c) ==
  ChecksOf(c).char_length # Nothing /\ ChecksOf(c).char_length.too_long_count > 0
\* SCHEMA_LENGTH_OVERRIDES as written: recalls.fmvss = 6
HasLengthOverride(c) == report.schema_name = "recalls" /\ c = "fmvss"
Totals == report.field_issue_counts
ErrorTexts ==
  {"Missing required columns for", "non-numeric values", "invalid YYYYMMDD date values",
   "values exceed CHAR"}

\* C22 as claimed: the errors list is non-empty iff there is a missing required column,
\* a non-numeric value in a numeric field, an invalid date or a length overflow in a
\* field with no legacy length override; every other violation adds a warning and never
\* an error.
C22_ErrorsIffHardViolation ==
  Returned =>
    /\ report.errors # <<>> <=>
         \/ report.missing_columns # <<>>
         \/ Totals.numeric_non_numeric_total > 0
         \/ Totals.date_invalid_total > 0
         \/ \E c \in CheckedColumns : Overflows(c) /\ ~HasLengthOverride(c)
    /\ \A c \in CheckedColumns :
         Overflows(c) /\ HasLengthOverride(c) =>
           \A e \in Says(report.errors, "values exceed CHAR") : e.about # c

\* whether the override of a column changes the size its document declares
Relaxed(c) == HasLengthOverride(c) /\ FieldOf(c).size # 6

\* C22 amended: the errors list is non-empty iff there is a missing required column, a
\* non-numeric value in a numeric field, an invalid date, or a length overflow in a
\* field whose allowed maximum is its documented size, which is so without a legacy
\* override and also with an override equal to the documented size.  Overflow past an
\* override that differs from the documented size, non-integer values, digit
\* overflow, placeholder dates, enum mismatches, unexpected extra columns, a
\* column-order mismatch and out-of-range model years each add a warning and no error.
C22_ErrorsIffOverflowPastDocumentedSize ==
  Returned =>
    /\ report.errors # <<>> <=>
         \/ report.missing_columns # <<>>
         \/ Totals.numeric_non_numeric_total > 0
         \/ Totals.date_invalid_total > 0
         \/ \E c \in CheckedColumns : Overflows(c) /\ ~Relaxed(c)
    /\ \A e \in Range(report.errors) : e.text \in ErrorTexts
    /\ \A c \in CheckedColumns :
         Overflows(c) =>
           IF Relaxed(c)
           THEN /\ \A e \in Says(report.errors, "values exceed CHAR") : e.about # c
                /\ \E w \in Says(report.warnings,
                                 "values exceed doc CHAR length (allowed legacy max)") :
                     w.about = c
           ELSE \E e \in Says(report.errors, "values exceed CHAR") : e.about = c
    /\ Totals.numeric_non_integer_total > 0 =>
         Says(report.warnings, "non-integer numeric values") # {}
    /\ Totals.numeric_digits_overflow_total > 0 =>
         Says(report.warnings, "values exceed NUMBER digit length") # {}
    /\ Totals.date_zero_placeholder_total > 0 =>
         Says(report.warnings, "placeholder zero date values") # {}
    /\ Totals.enum_invalid_total > 0 =>
         Says(report.warnings, "values outside documented codes") # {}
    /\ report.unexpected_extra_columns # <<>> =>
         Says(report.warnings, "Unexpected extra columns") # {}
    /\ report.column_order_matches_expected = Some(FALSE) =>
         Says(report.warnings, "column order differs from schema doc") # {}
    /\ report.model_year_out_of_range_count \notin {Nothing, Some(0)} =>
         YearWarnings(report.warnings) # {}

\* the only error of a report is the overflow of FMVSS values past CHAR(6), the size
\* of the column's legacy override
C22_Witness ==
  /\ Returned
  /\ Len(report.errors) = 1
  /\ \E c \in CheckedColumns : Overflows(c) /\ HasLengthOverride(c) /\ ~Relaxed(c)

\* values past the legacy maximum of a column documented as CHAR(3) only warn
C22_WitnessLegacy ==
  /\ Returned
  /\ Says(report.errors, "values exceed CHAR") = {}
  /\ \E c \in CheckedColumns : Overflows(c) /\ Relaxed(c)

\* ----------------------------------------------- properties: the renderer
LinesOf(label) == SelectSeq(printed, LAMBDA l : l.label = label)
Shown(header) ==
  \* the message lines that follow a header, up to the next line of another kind
  LET at == CHOOSE i \in DOMAIN printed : printed[i].label = header
      last == CHOOSE k \in at..Len(printed) :
                /\ \A i \in (at + 1)..k : printed[i].label = "-"
                /\ k = Len(printed) \/ printed[k + 1].label # "-"
  IN [i \in 1..(last - at) |-> printed[at + i].values[1]]
MoreAfter(header) ==
  \* the number of the "... more" line that closes the block of a header, 0 without
  LET at == CHOOSE i \in DOMAIN printed : printed[i].label = header
      next == at + Len(Shown(header)) + 1
  IN IF next \in DOMAIN printed /\ printed[next].label = "... more"
     THEN printed[next].values[1] ELSE 0
Capped(header, messages) ==
  IF messages = <<>> THEN LinesOf(header) = <<>>
  ELSE /\ Len(LinesOf(header)) = 1
       /\ Len(Shown(header)) <= 5
       /\ Shown(header) = SubSeq(messages, 1, Len(Shown(header)))
       /\ Len(Shown(header)) + MoreAfter(header) = Len(messages)
       /\ MoreAfter(header) > 0 <=> Len(messages) > 5
TotalsPrinted == {t.name : t \in Range(LinesOf("field_issue_totals")[1].values)}

\* C23 as claimed: the renderer shows at most 5 messages per category followed by a
\* "+N more" line giving the number not shown, and always prints every count of the
\* report, zero counts included: missing required, missing optional, unexpected
\* extra, every aggregated issue total, warnings, errors.
C23_CapsAndPrintsEveryCount ==
  printed # NotYet =>
    /\ Capped("error_examples", report.errors)
    /\ Capped("warning_examples", report.warnings)
    /\ Len(LinesOf("missing_required")) = 1
    /\ Len(LinesOf("missing_optional")) = 1
    /\ Len(LinesOf("unexpected_extra")) = 1
    /\ TotalsPrinted = {"date_invalid", "date_zero", "non_numeric", "non_integer",
                        "digits_overflow", "length_overflow", "enum_invalid"}
    /\ LinesOf("warnings") = <<Line("warnings", <<Len(report.warnings)>>)>>
    /\ LinesOf("errors") = <<Line("errors", <<Len(report.errors)>>)>>

\* C23 amended: the renderer shows the first 5 messages of each category and, when
\* there are more, a "+N more" line giving the number not shown.  It always prints the
\* numbers of rows, columns, warnings and errors and five issue totals (invalid dates,
\* placeholder dates, non-numeric values, length overflow, enum mismatches), zero or
\* not; the non-integer and digit-overflow totals are never printed.  The number of
\* missing required columns is printed, zero included, only for a report with a
\* resolved schema, and the missing optional and unexpected extra columns only when
\* there are some.
C23_CapsAndPrintsListedCounts ==
  printed # NotYet =>
    /\ Capped("error_examples", report.errors)
    /\ Capped("warning_examples", report.warnings)
    /\ LinesOf("rows") = <<Line("rows", <<report.rows>>)>>
    /\ LinesOf("columns") = <<Line("columns", <<report.columns>>)>>
    /\ LinesOf("warnings") = <<Line("warnings", <<Len(report.warnings)>>)>>
    /\ LinesOf("errors") = <<Line("errors", <<Len(report.errors)>>)>>
    /\ TotalsPrinted = {"date_invalid", "date_zero", "non_numeric", "length_overflow",
                        "enum_invalid"}
    /\ Len(LinesOf("missing_required")) = IF report.expected_columns = Nothing THEN 0 ELSE 1
    /\ \A l \in Range(LinesOf("missing_required")) :
         l.values[1] = Len(report.missing_columns)
    /\ Len(LinesOf("missing_optional")) =
         IF report.expected_columns # Nothing /\ report.missing_optional_columns # {}
         THEN 1 ELSE 0
    /\ Len(LinesOf("unexpected_extra")) =
         IF report.expected_columns # Nothing /\ report.unexpected_extra_columns # <<>>
         THEN 1 ELSE 0

\* a printed report with more than five errors, a resolved schema and no missing
\* optional column
C23_Witness ==
  /\ printed # NotYet
  /\ Len(report.errors) > 5
  /\ report.expected_columns # Nothing
  /\ report.missing_optional_columns = {}

\* ------------------------------------------- properties: what calls leave alone
\* thread t gets the return of a call in this step
Returns(t) ==
  \/ pc[t] = "build" /\ pc'[t] = "idle"
  \/ pc[t] = "idle" /\ pc'[t] = "idle" /\ calls' = calls + 1

\* C24: no sequence of get_schema_spec, get_schema_columns, schema detection and
\* collect_schema_report calls changes a cached SchemaSpec: once the catalog is cached,
\* every step of every call leaves it, and so the fields and the expected, required
\* and optional columns of its schemas, as first parsed.  The report a
\* collect_schema_report call returned is changed by no later step of any call; the
\* caller's next call returns a report made from the catalog anew.
C24_CallsLeaveSchemasAndReports ==
  [][/\ cache # NotYet => cache' = cache
     /\ \A t \in Threads :
          ret[t] # NotYet /\ ret'[t] # ret[t] =>
            /\ Returns(t)
            /\ ret'[t] = Respond(call'[t], catalog_info'[t], cache')]_vars

\* both threads have their returns, the first a report, from a cached catalog that
\* no longer is what the documents on disk would give
C24_Witness ==
  /\ \A t \in Threads : Finished(t)
  /\ call[1].op = "collect_schema_report" /\ ret[1].kind = "report"
  /\ call[2].op = "get_schema_spec" /\ ret[2].kind = "schema"
  /\ cache # NotYet /\ cache # Fresh

\* ------------------------------------------------ properties: the allowed values
\* SCHEMA_ENUM_OVERRIDES as written: recalls.influenced_by = {MFR, OVSC, ODI}
HasEnumOverride(c) == report.schema_name = "recalls" /\ FieldOf(c).name = "influenced_by"

\* the values the claim allows the column, in upper case
AllowedFor(c) ==
  IF HasEnumOverride(c) THEN {<<"M","F","R">>, <<"O","V","S","C">>, <<"O","D","I">>}
  ELSE IF FieldOf(c).is_yes_no THEN {<<"Y">>, <<"N">>}
  ELSE {Upper(Chars(code)) : code \in FieldOf(c).allowed_codes}

\* the cells of the column that hold a value outside a set of values
Outside(c, allowed) ==
  LET cells == df.data[c].values
  IN {i \in DOMAIN cells :
        /\ ~cells[i].na
        /\ Strip(cells[i].text) # <<>>
        /\ Upper(Strip(cells[i].text)) \notin allowed}

\* C25: the allowed values of the Enum check of a CHAR field are, by strict precedence,
\* the per-schema override when one is configured, else Y and N when the field is
\* is_yes_no, else the harvested allowed codes, else none, and then the check is
\* skipped; the override is used even when the field has harvested codes or is_yes_no.
C25_AllowedValuesByPrecedence ==
  WithSchema =>
    \A c \in CheckedColumns :
      FieldOf(c).type = "CHAR" =>
        /\ ChecksOf(c).enum # Nothing
        /\ ChecksOf(c).enum.checked = (AllowedFor(c) # {})
        /\ ChecksOf(c).enum.invalid_value_count =
             IF AllowedFor(c) = {} THEN 0 ELSE Cardinality(Outside(c, AllowedFor(c)))

\* a recalls column with an override, whose field is is_yes_no and has harvested
\* codes, holding a Y that only the override counts
C25_Witness ==
  /\ WithSchema
  /\ "influenced_by" \in CheckedColumns
  /\ HasEnumOverride("influenced_by")
  /\ FieldOf("influenced_by").is_yes_no
  /\ FieldOf("influenced_by").allowed_codes # {}
  /\ ChecksOf("influenced_by").enum.invalid_value_count = 2

\* a column checked against Y and N before its harvested codes, and a column whose
\* Enum check is skipped
C25_WitnessYesNo ==
  /\ WithSchema
  /\ report.schema_name = "complaints"
  /\ "influenced_by" \in CheckedColumns
  /\ FieldOf("influenced_by").allowed_codes # {}
  /\ ChecksOf("influenced_by").enum.invalid_value_count = 2
  /\ \E c \in CheckedColumns : ChecksOf(c).enum # Nothing /\ ~ChecksOf(c).enum.checked

\* ------------------------------------------------ properties: the issue totals
\* a per-column count, 0 when the column has no result of that validator
CountIn(c, part, count) ==
  IF ChecksOf(c)[part] = Nothing THEN 0 ELSE ChecksOf(c)[part][count]

RECURSIVE SumOver(_, _, _)
SumOver(cols, part, count) ==
  IF cols = {} THEN 0
  ELSE LET c == CHOOSE x \in cols : TRUE
       IN CountIn(c, part, count) + SumOver(cols \ {c}, part, count)

\* C26: in every returned report each aggregated issue total is the sum, over the
\* columns in field_checks, of the per-column count (date invalid, date placeholder,
\* non-numeric, non-integer, digit overflow, length overflow, enum invalid), and every
\* total is 0 when no schema was resolved.
C26_TotalsAreColumnSums ==
  Returned =>
    /\ Totals.date_invalid_total = SumOver(CheckedColumns, "date", "invalid_date_count")
    /\ Totals.date_zero_placeholder_total =
         SumOver(CheckedColumns, "date", "placeholder_zero_count")
    /\ Totals.numeric_non_numeric_total =
         SumOver(CheckedColumns, "numeric", "non_numeric_count")
    /\ Totals.numeric_non_integer_total =
         SumOver(CheckedColumns, "numeric", "non_integer_count")
    /\ Totals.numeric_digits_overflow_total =
         SumOver(CheckedColumns, "numeric", "digits_overflow_count")
    /\ Totals.char_length_overflow_total =
         SumOver(CheckedColumns, "char_length", "too_long_count")
    /\ Totals.enum_invalid_total = SumOver(CheckedColumns, "enum", "invalid_value_count")
    /\ r_spec = NoSchema =>
         \A total \in DOMAIN Totals : Totals[total] = 0

\* ------------------------------------------- properties: the catalog under threads
\* every one of the names is in exactly one of schemas and errors
Settles(info, names) ==
  \A n \in names : (n \in Keys(info.schemas)) # (n \in Keys(info.errors))

\* C27: no caller observes a partially built catalog: under every interleaving of the
\* threads, the cached catalog and the catalog every caller got hold every configured
\* name in exactly one of schemas and errors; the dict a build is still filling is
\* the building thread's own and holds each name it has handled in exactly one of them.
C27_NoPartialCatalogVisible ==
  /\ cache # NotYet => Settles(cache, Range(SchemaNames))
  /\ \A t \in Threads :
       /\ catalog_info[t] # NotYet => Settles(catalog_info[t], Range(SchemaNames))
       /\ building[t] # NotYet =>
            /\ Settles(building[t], Keys(building[t].source))
            /\ Keys(building[t].schemas) \cup Keys(building[t].errors)
                 = Keys(building[t].source)

\* a thread has its call answered from the cached catalog, which holds a schema and
\* an error, while the other thread's build has handled one document of two
C27_Witness ==
  \E t, u \in Threads :
    /\ pc[t] = "build" /\ Len(building[t].source) = 1
    /\ Finished(u) /\ catalog_info[u] = cache
    /\ cache.schemas # <<>> /\ cache.errors # <<>>

====
